---- MODULE Spec2Model ----
(***************************************************************************)
(* Model of the benchmark catalog, key normalizer, task registry and task *)
(* loader of src/src/openbench/config.py.                                  *)
(*                                                                         *)
(* Representation of Python values:                                        *)
(*  - a benchmark identifier (str) is a sequence of tokens in which every  *)
(*    "-" and every "_" of the identifier is a token of its own, so that   *)
(*    str.replace("-", "_") is a map over the tokens;                      *)
(*  - a dotted name (module path, import path, sys.modules key) is the     *)
(*    sequence of its dot-separated components;                            *)
(*  - a dict is a function; dict order, where the code iterates, is a      *)
(*    sequence of keys;                                                    *)
(*  - dict.get is a record [found, value].                                 *)
(***************************************************************************)
EXTENDS Integers, Sequences, FiniteSets, TLC

\* ------------------------------------------------------------------ bounds
\* calls of load_task made by the caller in one run
MaxCalls == 2
\* registry modules that are faulty in the environment (the import fails, or
\* the module lacks its entry point)
MaxFaults == 1
\* keys handed to _build_normalized_lookup
MaxKeys == 3
\* distinct local evals loaded by the sweeping caller beyond the cache size
SweepExtra == 1
\* tokens of a name handed to get_benchmark_metadata
MaxTokens == 3
\* records of a catalog handed to the documentation export
MaxRecords == 2
\* mappings the caller holds on to
MaxHeld == 2
\* edits the caller makes to one mapping
MaxEdits == 1

\* functools.lru_cache() default maxsize, the cache of load_task
lru_maxsize == 128

\* ------------------------------------------------------- the catalog (data)
K_graphwalks_parents == <<"graphwalks", "_", "parents">>
K_mmlu == <<"mmlu">>
K_mmlu_pro == <<"mmlu", "-", "pro">>

\* BENCHMARKS.keys(), in insertion order (the entries the model keeps)
BENCHMARK_KEYS == <<K_graphwalks_parents, K_mmlu, K_mmlu_pro>>

BenchmarkMetadata(name, description, category, tags, module_path, function_name, is_alpha) ==
    [name |-> name, description |-> description, category |-> category,
     tags |-> tags, module_path |-> module_path,
     function_name |-> function_name, is_alpha |-> is_alpha]

BENCHMARKS ==
    (K_graphwalks_parents :> BenchmarkMetadata("GraphWalks Parents",
        "Multi-hop reasoning on graphs - parent finding tasks only", "core",
        <<"long-context", "graphs", "reasoning", "parents", "alpha">>,
        <<"openbench", "evals", "graphwalks">>, "graphwalks_parents", TRUE))
    @@ (K_mmlu :> BenchmarkMetadata("MMLU (cais/mmlu)",
        "Massive Multitask Language Understanding", "core",
        <<"multiple-choice", "knowledge", "reasoning", "multitask">>,
        <<"openbench", "evals", "mmlu">>, "mmlu", FALSE))
    @@ (K_mmlu_pro :> BenchmarkMetadata("MMLU Pro (TIGER-Lab)",
        "Enhanced version of MMLU", "core",
        <<"multiple-choice", "knowledge", "reasoning", "multitask">>,
        <<"openbench", "evals", "mmlu_pro">>, "mmlu_pro", FALSE))

NoMeta == BenchmarkMetadata("", "", "", <<>>, <<>>, "", FALSE)

\* the fields of the dataclass without a default
RequiredFields == {"name", "description", "category", "tags", "module_path", "function_name"}

\* The __init__ the dataclass decorator generates, called with keyword
\* arguments; kwargs[f] = [given, value]. A required argument that is not
\* given is a TypeError; nothing else is looked at.
BenchmarkMetadata__init__(kwargs) ==
    IF \E f \in RequiredFields : ~kwargs[f].given
    THEN [status |-> "raise", exc |-> "TypeError", record |-> NoMeta]
    ELSE [status |-> "return", exc |-> "",
          record |-> BenchmarkMetadata(kwargs.name.value, kwargs.description.value,
                        kwargs.category.value, kwargs.tags.value, kwargs.module_path.value,
                        kwargs.function_name.value,
                        IF kwargs.is_alpha.given THEN kwargs.is_alpha.value ELSE FALSE)]

\* ------------------------------------------------------------- dict helpers
Get(d, k) == IF k \in DOMAIN d THEN [found |-> TRUE, value |-> d[k]]
             ELSE [found |-> FALSE, value |-> <<>>]

\* Python truthiness of the result of dict.get on a dict of strings:
\* None and the empty string are false
Truthy(g) == g.found /\ g.value # <<>>

Range(s) == {s[i] : i \in 1..Len(s)}

\* ------------------------------------------------------------ key normalizer
\* the mutant: the key is left as it is
_normalize_benchmark_key_unchanged(name) == name

_normalize_benchmark_key(name) ==
    [i \in 1..Len(name) |-> IF name[i] = "-" THEN "_" ELSE name[i]]

\* One iteration of the loop of _build_normalized_lookup on names[i], from the
\* lookup built so far; acc = [raised, existing, key, lookup].
RECURSIVE _build_loop(_, _, _)
_build_loop(names, i, acc) ==
    IF acc.raised \/ i > Len(names) THEN acc
    ELSE LET key == names[i]
             normalized == _normalize_benchmark_key(key)
             existing == Get(acc.lookup, normalized)
         IN  IF Truthy(existing) /\ existing.value # key
             THEN [raised |-> TRUE, existing |-> existing.value, key |-> key,
                   lookup |-> acc.lookup]
             ELSE _build_loop(names, i + 1,
                    [acc EXCEPT !.lookup =
                        (normalized :> key) @@ acc.lookup])

\* the mutant: a later key silently replaces the earlier one
_build_normalized_lookup_overwrite(names) ==
    [raised |-> FALSE, existing |-> <<>>, key |-> <<>>,
     lookup |-> [n \in {_normalize_benchmark_key(names[i]) : i \in 1..Len(names)} |->
                  names[CHOOSE i \in 1..Len(names) :
                          /\ _normalize_benchmark_key(names[i]) = n
                          /\ \A j \in (i + 1)..Len(names) :
                                _normalize_benchmark_key(names[j]) # n]]]

\* Result: raised = TRUE models the ValueError naming `existing` and `key`;
\* otherwise lookup is the returned dict.
_build_normalized_lookup(names) ==
    _build_loop(names, 1,
        [raised |-> FALSE, existing |-> <<>>, key |-> <<>>, lookup |-> <<>>])

_NORMALIZED_BENCHMARK_NAMES == _build_normalized_lookup(BENCHMARK_KEYS).lookup

\* ---------------------------------------------------------- catalog queries
\* the mutant: only the exact key is looked up
get_benchmark_metadata_exact_only(name) ==
    [found |-> name \in DOMAIN BENCHMARKS,
     meta |-> IF name \in DOMAIN BENCHMARKS THEN BENCHMARKS[name] ELSE NoMeta,
     steps |-> <<"BENCHMARKS.get">>, raised |-> FALSE]

\* Result: found = FALSE models None; raised = TRUE models the KeyError of
\* BENCHMARKS[canonical_name]; steps are the lookups made.
get_benchmark_metadata(name) ==
    LET metadata == Get(BENCHMARKS, name)
        canonical_name == Get(_NORMALIZED_BENCHMARK_NAMES, _normalize_benchmark_key(name))
        both == <<"BENCHMARKS.get", "_NORMALIZED_BENCHMARK_NAMES.get">>
    IN  IF metadata.found
        THEN [found |-> TRUE, meta |-> metadata.value, steps |-> <<"BENCHMARKS.get">>,
              raised |-> FALSE]
        ELSE IF Truthy(canonical_name)
             THEN IF canonical_name.value \in DOMAIN BENCHMARKS
                  THEN [found |-> TRUE, meta |-> BENCHMARKS[canonical_name.value],
                        steps |-> both, raised |-> FALSE]
                  ELSE [found |-> FALSE, meta |-> NoMeta, steps |-> both, raised |-> TRUE]
             ELSE [found |-> FALSE, meta |-> NoMeta, steps |-> both, raised |-> FALSE]

\* the mutant: the alpha entries are never filtered out
get_all_benchmarks_unfiltered(include_alpha) ==
    [order |-> BENCHMARK_KEYS, items |-> BENCHMARKS]

\* Result: the dict returned, as its keys in order and its items
get_all_benchmarks(include_alpha) ==
    IF include_alpha THEN [order |-> BENCHMARK_KEYS, items |-> BENCHMARKS]
    ELSE LET keys == SelectSeq(BENCHMARK_KEYS, LAMBDA k : ~BENCHMARKS[k].is_alpha)
         IN  [order |-> keys, items |-> [k \in Range(keys) |-> BENCHMARKS[k]]]

\* ------------------------------------------------------------- task registry
\* the mutant: the function name is left out
ImportPath_module_only(metadata) == metadata.module_path

\* f"{module_path}.{function_name}"
ImportPath(metadata) == Append(metadata.module_path, metadata.function_name)

_generate_task_registry(include_alpha) ==
    LET all == get_all_benchmarks(include_alpha)
    IN  [k \in DOMAIN all.items |-> ImportPath(all.items[k])]

TASK_REGISTRY == _generate_task_registry(TRUE)

\* TASK_REGISTRY.keys(), in insertion order
TASK_REGISTRY_KEYS == get_all_benchmarks(TRUE).order

\* the mutant: the index is built over the registry without the alpha entries
_NORMALIZED_TASK_REGISTRY_non_alpha ==
    _build_normalized_lookup(get_all_benchmarks(FALSE).order).lookup

_NORMALIZED_TASK_REGISTRY == _build_normalized_lookup(TASK_REGISTRY_KEYS).lookup

\* -------------------------------------------------------------- environment
VARIABLES
    cache,        \* lru_cache of load_task: <<[key, value]>>, least recently used first
    sys_modules,  \* sys.modules: dotted name -> module object
    uuid_counter, \* the next token uuid.uuid4() yields
    installed,    \* registry modules the import system can import
    exported,     \* registry module -> names it defines once imported
    fs,           \* filesystem: path -> what is there
    history,      \* the caller's observations, one record per load_task call
    probes,       \* the caller's observations, one record per get_eval_metadata call
    modules_log,  \* the events of all dynamic loads so far, in order
    keys_in,      \* the key sequence handed to _build_normalized_lookup
    lookup_out,   \* what _build_normalized_lookup did with keys_in
    query_in,     \* a call of a catalog function: the function and its arguments
    query_out,    \* what that call ended in
    config_module,\* the module the documentation export imports as openbench.config
    export_out,   \* what the call of export_benchmarks ended in
    snippet_file, \* the file at snippet_mdx_path
    catalog_obj,  \* the dict object BENCHMARKS as it is now: its keys in order and its items
    held          \* the mappings the caller got from the catalog functions and holds on to

vars == <<cache, sys_modules, uuid_counter, installed, exported, fs, history,
          probes, modules_log, keys_in, lookup_out, query_in, query_out,
          config_module, export_out, snippet_file, catalog_obj, held>>

\* the state the loader's actions leave alone
catalog_vars == <<keys_in, lookup_out, query_in, query_out>>

\* the state only the documentation export touches
export_vars == <<config_module, export_out, snippet_file>>

\* the state only a caller editing the mappings it was given touches
caller_vars == <<catalog_obj, held>>

\* the state the catalog's actions leave alone
loader_vars ==
    <<cache, sys_modules, uuid_counter, installed, exported, fs, history, probes, modules_log>>

\* the implementation modules the catalog names
RegistryModules == {BENCHMARKS[k].module_path : k \in DOMAIN BENCHMARKS}

\* what each implementation module defines when the installation is intact
ShippedExports ==
    [m \in RegistryModules |->
        {BENCHMARKS[k].function_name : k \in {x \in DOMAIN BENCHMARKS : BENCHMARKS[x].module_path = m}}]

\* a module object: the names bound in it, its __metadata__ and whether it
\* has a __path__ (is a package)
Module(attrs, meta, is_pkg) == [attrs |-> attrs, meta |-> meta, is_pkg |-> is_pkg]

\* __metadata__ of a module: kind "none" (not defined), "wrong" (not a
\* BenchmarkMetadata) or "valid" with the two fields the loader reads
LocalMeta(kind, module_path, function_name) ==
    [kind |-> kind, module_path |-> module_path, function_name |-> function_name]

NoLocalMeta == LocalMeta("none", <<>>, "")

\* a source file: executing it raises, or binds `defines` and __metadata__.
\* "__name__" as first component of module_path stands for the module's own
\* name, which the file can only write as the expression __name__.
\* imports: the siblings it imports relatively (from .stem import ...), in
\* the order of the statements, before anything else in the body
FileBody(raises, meta, defines, imports) ==
    [raises |-> raises, meta |-> meta, defines |-> defines, imports |-> imports]

\* a filesystem entry. kind: "absent", "unstatable" (stat fails with an
\* error other than "no such file"), "file" (py_suffix: whether the name
\* ends in a suffix the import system has a loader for) or "dir" (has_init:
\* whether __init__.py is in it; siblings: the other *.py files by stem)
FsEntry(kind, py_suffix, has_init, entry, siblings) ==
    [kind |-> kind, py_suffix |-> py_suffix, has_init |-> has_init,
     entry |-> entry, siblings |-> siblings]

EmptyBody == FileBody(FALSE, NoLocalMeta, {}, <<>>)

Absent == FsEntry("absent", FALSE, FALSE, EmptyBody, <<>>)

Unstatable == FsEntry("unstatable", FALSE, FALSE, EmptyBody, <<>>)

\* ------------------------------------------------------------------ results
NoValue == [module |-> <<>>, attr |-> ""]

Return(module, attr) ==
    [status |-> "return", value |-> [module |-> module, attr |-> attr],
     exc |-> "", tmpl |-> "", subject |-> <<>>, keys |-> <<>>]

\* an exception: its class, its message template and what the message quotes
Raise(exc, tmpl, subject, keys) ==
    [status |-> "raise", value |-> NoValue,
     exc |-> exc, tmpl |-> tmpl, subject |-> subject, keys |-> keys]

\* ------------------------------------------------------ dynamic module import
\* f"_openbench_dyn_{uuid.uuid4().hex}": uuid4 is modelled as a counter, a
\* token no earlier call has drawn
SynName(u) == <<"_openbench_dyn_" \o ToString(u)>>

\* what executing `body` as the module named `name` leaves in the module
Executed(body, name, is_pkg) ==
    LET mp == body.meta.module_path
        meta == IF body.meta.kind = "valid" /\ Len(mp) > 0 /\ mp[1] = "__name__"
                THEN [body.meta EXCEPT !.module_path = name \o Tail(mp)]
                ELSE body.meta
    IN  Module(body.defines \cup (IF meta.kind = "none" THEN {} ELSE {"__metadata__"}),
               meta, is_pkg)

\* one change of sys.modules or one execution of a file body, as it happens
\* during a dynamic load. ev: "bind" (sys.modules[name] = a module object
\* created for it), "unbind" (del sys.modules[name]), "exec_start",
\* "exec_end", "exec_raise" (the body of `name` starts, ends, raises)
Event(ev, name) == [ev |-> ev, name |-> name]

\* sys.modules without the name
Unbound(mods, name) == [n \in DOMAIN mods \ {name} |-> mods[n]]

\* importlib's clean-up of a module whose body raised
unbind_if_raised(full, st) ==
    IF st.raised
    THEN [st EXCEPT !.mods = Unbound(st.mods, full),
                    !.events = Append(st.events, Event("unbind", full))]
    ELSE st

\* Execution of file bodies. st = [raised, mods, events, steps]: whether an
\* exception is on its way out, sys.modules, the events and the steps so far.
RECURSIVE exec_body(_, _, _, _, _, _)
RECURSIVE relative_import(_, _, _, _)

\* the import system on `from .stem import ...` executed in a file of the
\* package mod_name: a module in sys.modules is used as it is; otherwise
\* stem.py is found through the package's __path__, a module is created,
\* bound and executed, and unbound again if its body raises
\* (importlib._bootstrap._load_unlocked)
relative_import(path, mod_name, stem, st) ==
    LET full == mod_name \o <<stem>>
        bound == [st EXCEPT !.mods = (full :> Module({}, NoLocalMeta, FALSE)) @@ st.mods,
                            !.events = st.events \o <<Event("bind", full), Event("exec_start", full)>>,
                            !.steps = Append(st.steps, "import_sibling")]
    IN  IF full \in DOMAIN st.mods THEN st
        ELSE IF ~st.mods[mod_name].is_pkg \/ stem \notin DOMAIN fs[path].siblings
        THEN [st EXCEPT !.raised = TRUE]
        ELSE unbind_if_raised(full, exec_body(path, mod_name, full, fs[path].siblings[stem], 1, bound))

\* loader.exec_module of `body` as the module `full`, already bound in
\* sys.modules: its imports from position i on, then the rest of the body
exec_body(path, mod_name, full, body, i, st) ==
    IF st.raised THEN [st EXCEPT !.events = Append(st.events, Event("exec_raise", full))]
    ELSE IF i <= Len(body.imports)
    THEN exec_body(path, mod_name, full, body, i + 1,
                   relative_import(path, mod_name, body.imports[i], st))
    ELSE IF body.raises
    THEN [st EXCEPT !.raised = TRUE, !.events = Append(st.events, Event("exec_raise", full))]
    ELSE [st EXCEPT !.mods = (full :> Executed(body, full, st.mods[full].is_pkg)) @@ st.mods,
                    !.events = Append(st.events, Event("exec_end", full))]

\* the loop over path.glob("*.py"), visiting the siblings in `order`, from
\* position i; each sibling gets a new module object, which is bound in
\* sys.modules (whatever was bound there before) and then executed
\* the mutant: no sibling is pre-loaded
_preload_submodules_none(path, mod_name, order, i, acc) == acc

RECURSIVE _preload_submodules(_, _, _, _, _)
_preload_submodules(path, mod_name, order, i, acc) ==
    IF acc.raised \/ i > Len(order) THEN acc
    ELSE LET submodule_full_name == mod_name \o <<order[i]>>
         IN  _preload_submodules(path, mod_name, order, i + 1,
                exec_body(path, mod_name, submodule_full_name, fs[path].siblings[order[i]], 1,
                    [acc EXCEPT
                        !.mods = (submodule_full_name :> Module({}, NoLocalMeta, FALSE)) @@ acc.mods,
                        !.events = acc.events \o <<Event("bind", submodule_full_name),
                                                   Event("exec_start", submodule_full_name)>>,
                        !.steps = acc.steps \o <<"register_sibling", "exec_sibling">>]))

\* spec.loader.exec_module(module), the last statement of
\* _import_module_from_path, once the siblings are pre-loaded (pre)
_exec_entry(path, mod_name, entry, pre) ==
    IF pre.raised THEN pre
    ELSE exec_body(path, mod_name, mod_name, entry, 1,
            [pre EXCEPT !.events = Append(pre.events, Event("exec_start", mod_name)),
                        !.steps = Append(pre.steps, "exec_entry")])

\* what _import_module_from_path ends in when the files have run (fin)
_imported(path, mod_name, uuid, fin) ==
    [out |-> IF fin.raised
             THEN Raise("Exception", "raised by the eval's own code", path, <<>>)
             ELSE Return(mod_name, ""),
     mods |-> fin.mods, uuid |-> uuid + 1, steps |-> fin.steps, events |-> fin.events]

\* sys.modules[mod_name] = module and, for a directory, the pre-loading of
\* the submodules
_registered_root(path, mod_name, is_dir, order, mods) ==
    LET st0 == [raised |-> FALSE,
                mods |-> (mod_name :> Module({}, NoLocalMeta, is_dir)) @@ mods,
                events |-> <<Event("bind", mod_name)>>,
                steps |-> <<"uuid4", "register_root">>]
    IN  IF is_dir THEN _preload_submodules(path, mod_name, order, 1, st0) ELSE st0

\* the mutant: the module name is generated before the directory is checked
_import_module_from_path_name_first(path, order, mods, uuid) ==
    IF fs[path].kind = "dir" /\ ~fs[path].has_init
    THEN [out |-> Raise("ValueError", "is a directory but has no __init__.py", path, <<>>),
          mods |-> mods, uuid |-> uuid + 1, steps |-> <<"uuid4">>, events |-> <<>>]
    ELSE IF fs[path].kind # "dir" /\ ~fs[path].py_suffix
    THEN [out |-> Raise("ImportError", "Cannot create import spec for", path, <<>>),
          mods |-> mods, uuid |-> uuid + 1, steps |-> <<"uuid4">>, events |-> <<>>]
    ELSE _imported(path, SynName(uuid), uuid,
            _exec_entry(path, SynName(uuid), fs[path].entry,
                _registered_root(path, SynName(uuid), fs[path].kind = "dir", order, mods)))

\* Result: out is "raise" with the exception, or "return" with value.module
\* the name of the module returned; mods and uuid are sys.modules and the
\* uuid counter afterwards, events and steps what happened on the way.
_import_module_from_path(path, order, mods, uuid) ==
    IF fs[path].kind = "dir" /\ ~fs[path].has_init
    THEN [out |-> Raise("ValueError", "is a directory but has no __init__.py", path, <<>>),
          mods |-> mods, uuid |-> uuid, steps |-> <<>>, events |-> <<>>]
    ELSE IF fs[path].kind # "dir" /\ ~fs[path].py_suffix
    THEN [out |-> Raise("ImportError", "Cannot create import spec for", path, <<>>),
          mods |-> mods, uuid |-> uuid + 1, steps |-> <<"uuid4">>, events |-> <<>>]
    ELSE _imported(path, SynName(uuid), uuid,
            _exec_entry(path, SynName(uuid), fs[path].entry,
                _registered_root(path, SynName(uuid), fs[path].kind = "dir", order, mods)))

\* the mutant: the declared path is never taken verbatim
StartsWith_never(module_path, root_name) == FALSE

\* str.startswith on dotted names. Every synthetic root name has the same
\* width (32 hex digits), so a declared path starts with the root's name
\* only if its first component does.
StartsWith(module_path, root_name) ==
    /\ Len(module_path) >= Len(root_name)
    /\ SubSeq(module_path, 1, Len(root_name)) = root_name

\* the mutant: __metadata__ is read without a default and without a type check
_task_of_root_module_unchecked(path, imp) ==
    LET root_name == imp.out.value.module
        metadata == imp.mods[root_name].meta
        full_module_name ==
            IF StartsWith(metadata.module_path, root_name)
            THEN metadata.module_path
            ELSE root_name \o SubSeq(metadata.module_path, Len(metadata.module_path),
                                     Len(metadata.module_path))
        steps == imp.steps \o <<"local_import_module", "local_getattr">>
    IN  IF imp.out.status = "raise" THEN imp
        ELSE IF metadata.kind = "none"
        THEN [imp EXCEPT !.out = Raise("AttributeError", "module has no attribute",
                                       Append(root_name, "__metadata__"), <<>>)]
        ELSE IF full_module_name \notin DOMAIN imp.mods
        THEN [imp EXCEPT !.out = Raise("ImportError", "Cannot import module", full_module_name, <<>>),
                         !.steps = Append(imp.steps, "local_import_module")]
        ELSE IF metadata.function_name \notin imp.mods[full_module_name].attrs
        THEN [imp EXCEPT !.out = Raise("AttributeError", "Function not found in module",
                                       Append(full_module_name, metadata.function_name), <<>>),
                         !.steps = steps]
        ELSE [imp EXCEPT !.out = Return(full_module_name, metadata.function_name),
                         !.steps = steps]

\* _load_task_from_local_path once the root module is imported: imp is the
\* result of _import_module_from_path(path)
_task_of_root_module(path, imp) ==
    LET root_name == imp.out.value.module
        metadata == imp.mods[root_name].meta
        full_module_name ==
            IF StartsWith(metadata.module_path, root_name)
            THEN metadata.module_path
            ELSE root_name \o <<metadata.module_path[Len(metadata.module_path)]>>
        steps == imp.steps \o <<"local_import_module", "local_getattr">>
    IN  IF imp.out.status = "raise" THEN imp
        ELSE IF metadata.kind # "valid"
        THEN [imp EXCEPT !.out = Raise("ValueError", "has no valid __metadata__", path, <<>>)]
        ELSE IF full_module_name \notin DOMAIN imp.mods
        THEN [imp EXCEPT !.out = Raise("ImportError", "Cannot import module", full_module_name, <<>>),
                         !.steps = Append(imp.steps, "local_import_module")]
        ELSE IF metadata.function_name \notin imp.mods[full_module_name].attrs
        THEN [imp EXCEPT !.out = Raise("AttributeError", "Function not found in module",
                                       Append(full_module_name, metadata.function_name), <<>>),
                         !.steps = steps]
        ELSE [imp EXCEPT !.out = Return(full_module_name, metadata.function_name),
                         !.steps = steps]

_load_task_from_local_path(path, order, mods, uuid) ==
    _task_of_root_module(path, _import_module_from_path(path, order, mods, uuid))

\* ------------------------------------------------------------------ load_task
\* the user's home directory
Home == <<"/home/user">>

\* first components "~user" naming a user the system does not know
UnknownUsers == {"~nosuchuser"}

\* Path.expanduser: a leading "~" becomes the home directory; a leading
\* "~user" of an unknown user raises RuntimeError (ok = FALSE)
expanduser(path) ==
    IF Len(path) > 0 /\ path[1] = "~" THEN [ok |-> TRUE, path |-> Home \o Tail(path)]
    ELSE IF Len(path) > 0 /\ path[1] \in UnknownUsers THEN [ok |-> FALSE, path |-> path]
    ELSE [ok |-> TRUE, path |-> path]

\* os.stat fails with an error Path.exists does not ignore (the name is too
\* long, a directory on the way may not be searched): Path.exists raises it
StatFails(path) == path \in DOMAIN fs /\ fs[path].kind = "unstatable"

\* Path.exists, when stat does not fail
exists(path) == path \in DOMAIN fs /\ fs[path].kind \in {"file", "dir"}

\* the mutant: split at the first dot
rsplit_first(import_path) ==
    [module_path |-> <<import_path[1]>>,
     func_name |-> import_path[2]]

\* import_path.rsplit(".", 1)
rsplit(import_path) ==
    [module_path |-> SubSeq(import_path, 1, Len(import_path) - 1),
     func_name |-> import_path[Len(import_path)]]

\* the packages a dotted module name lies in
Parents(module_path) == {SubSeq(module_path, 1, n) : n \in 1..(Len(module_path) - 1)}

\* importlib.import_module of a registry module: sys.modules is consulted
\* first; importing registers the module and the packages it lies in
import_module(module_path, mods) ==
    LET parents == [p \in Parents(module_path) \ DOMAIN mods |-> Module({}, NoLocalMeta, TRUE)]
    IN  IF module_path \in DOMAIN mods THEN [ok |-> TRUE, mods |-> mods]
        ELSE IF module_path \in installed
        THEN [ok |-> TRUE,
              mods |-> (module_path :> Module(exported[module_path], NoLocalMeta, FALSE))
                         @@ parents @@ mods]
        ELSE [ok |-> FALSE, mods |-> parents @@ mods]

\* the mutant: the normalized index is consulted first
ResolveImportPath_normalized_first(benchmark_name) ==
    LET canonical_name == Get(_NORMALIZED_TASK_REGISTRY, _normalize_benchmark_key(benchmark_name))
    IN  IF Truthy(canonical_name)
        THEN [found |-> TRUE, import_path |-> TASK_REGISTRY[canonical_name.value],
              benchmark_name |-> canonical_name.value,
              steps |-> <<"_NORMALIZED_TASK_REGISTRY.get">>]
        ELSE [found |-> FALSE, import_path |-> <<>>, benchmark_name |-> benchmark_name,
              steps |-> <<"_NORMALIZED_TASK_REGISTRY.get">>]

\* the mutant: an alias keeps its own name and finds no import path
ResolveImportPath_exact_only(benchmark_name) ==
    LET exact == Get(TASK_REGISTRY, benchmark_name)
    IN  [found |-> exact.found, import_path |-> exact.value,
         benchmark_name |-> benchmark_name, steps |-> <<"TASK_REGISTRY.get">>]

\* "Try registry first": the exact lookup, then the normalized index
ResolveImportPath(benchmark_name) ==
    LET exact == Get(TASK_REGISTRY, benchmark_name)
        canonical_name == Get(_NORMALIZED_TASK_REGISTRY, _normalize_benchmark_key(benchmark_name))
        both == <<"TASK_REGISTRY.get", "_NORMALIZED_TASK_REGISTRY.get">>
    IN  IF exact.found
        THEN [found |-> exact.value # <<>>, import_path |-> exact.value,
              benchmark_name |-> benchmark_name, steps |-> <<"TASK_REGISTRY.get">>]
        ELSE IF Truthy(canonical_name)
        THEN [found |-> TRUE, import_path |-> TASK_REGISTRY[canonical_name.value],
              benchmark_name |-> canonical_name.value, steps |-> both]
        ELSE [found |-> FALSE, import_path |-> <<>>,
              benchmark_name |-> benchmark_name, steps |-> both]

\* the branch "if import_path:" of load_task
LoadFromRegistry(import_path, mods, uuid, steps) ==
    LET sp == rsplit(import_path)
        imp == import_module(sp.module_path, mods)
    IN  IF ~imp.ok
        THEN [out |-> Raise("ImportError", "No module named", sp.module_path, <<>>),
              mods |-> imp.mods, uuid |-> uuid,
              steps |-> steps \o <<"rsplit", "import_module">>, events |-> <<>>]
        ELSE IF sp.func_name \notin imp.mods[sp.module_path].attrs
        THEN [out |-> Raise("AttributeError", "module has no attribute", import_path, <<>>),
              mods |-> imp.mods, uuid |-> uuid,
              steps |-> steps \o <<"rsplit", "import_module", "getattr">>, events |-> <<>>]
        ELSE [out |-> Return(sp.module_path, sp.func_name),
              mods |-> imp.mods, uuid |-> uuid,
              steps |-> steps \o <<"rsplit", "import_module", "getattr">>, events |-> <<>>]

\* the mutant: one generic message for both ValueErrors
AlphaGateError_generic(benchmark_name) ==
    Raise("ValueError", "Unknown benchmark. Available benchmarks:", benchmark_name, <<>>)

\* ValueError(f"'{benchmark_name}' is an experimental/alpha benchmark. ...")
AlphaGateError(benchmark_name) ==
    Raise("ValueError", "is an experimental/alpha benchmark. Use --alpha flag to run it.",
          benchmark_name, <<>>)

\* ValueError(f"Unknown benchmark: '{benchmark_name}'. Available benchmarks: ...")
UnknownBenchmarkError(benchmark_name) ==
    Raise("ValueError", "Unknown benchmark. Available benchmarks:", benchmark_name,
          TASK_REGISTRY_KEYS)

\* the mutant: the gate is never applied
AlphaGated_never(meta, allow_alpha) == FALSE

\* the condition of the alpha gate
AlphaGated(meta, allow_alpha) == meta.found /\ meta.meta.is_alpha /\ ~allow_alpha

\* "Fallback to path-based loading" of load_task, and its last raise
LoadFromPath(benchmark_name, order, steps) ==
    LET expanded == expanduser(benchmark_name)
        path == expanded.path
        local == _load_task_from_local_path(path, order, sys_modules, uuid_counter)
        untouched == [out |-> Return(<<>>, ""), mods |-> sys_modules, uuid |-> uuid_counter,
                      steps |-> steps \o <<"expanduser", "exists">>, events |-> <<>>]
    IN  IF ~expanded.ok
        THEN [untouched EXCEPT
                !.out = Raise("RuntimeError", "Could not determine home directory.", <<>>, <<>>),
                !.steps = Append(steps, "expanduser")]
        ELSE IF StatFails(path)
        THEN [untouched EXCEPT !.out = Raise("OSError", "stat failed:", path, <<>>)]
        ELSE IF exists(path)
        THEN [local EXCEPT !.steps = untouched.steps \o local.steps]
        ELSE [untouched EXCEPT !.out = UnknownBenchmarkError(benchmark_name)]

\* the mutant: the alpha gate is applied once the registry entry is imported
load_task_gate_after_import(benchmark_name, allow_alpha, order) ==
    LET benchmark_meta == get_benchmark_metadata(benchmark_name)
        res == ResolveImportPath(benchmark_name)
        s2 == res.steps \o benchmark_meta.steps
        reg == LoadFromRegistry(res.import_path, sys_modules, uuid_counter, s2)
    IN  IF res.found
        THEN IF AlphaGated(benchmark_meta, allow_alpha)
             THEN [reg EXCEPT !.out = AlphaGateError(benchmark_name)] ELSE reg
        ELSE LoadFromPath(res.benchmark_name, order, s2)

\* the mutant: an existing path takes precedence over the registry
load_task_path_first(benchmark_name, allow_alpha, order) ==
    LET benchmark_meta == get_benchmark_metadata(benchmark_name)
        res == ResolveImportPath(benchmark_name)
        s2 == benchmark_meta.steps \o res.steps
    IN  IF AlphaGated(benchmark_meta, allow_alpha)
        THEN [out |-> AlphaGateError(benchmark_name),
              mods |-> sys_modules, uuid |-> uuid_counter, steps |-> benchmark_meta.steps,
              events |-> <<>>]
        ELSE IF res.found /\ ~exists(expanduser(benchmark_name).path)
        THEN LoadFromRegistry(res.import_path, sys_modules, uuid_counter, s2)
        ELSE LoadFromPath(benchmark_name, order, s2)

\* The body of load_task (what runs on a cache miss), with the siblings of a
\* directory globbed in `order`. Result: out is the value returned or the
\* exception raised, mods and uuid are sys.modules and the uuid counter
\* afterwards, steps are the lookups and imports performed, in order.
load_task(benchmark_name, allow_alpha, order) ==
    LET benchmark_meta == get_benchmark_metadata(benchmark_name)
        res == ResolveImportPath(benchmark_name)
        s2 == benchmark_meta.steps \o res.steps
    IN  IF AlphaGated(benchmark_meta, allow_alpha)
        THEN [out |-> AlphaGateError(benchmark_name),
              mods |-> sys_modules, uuid |-> uuid_counter, steps |-> benchmark_meta.steps,
              events |-> <<>>]
        ELSE IF res.found
        THEN LoadFromRegistry(res.import_path, sys_modules, uuid_counter, s2)
        ELSE LoadFromPath(res.benchmark_name, order, s2)

\* ----------------------------------------------------------- get_eval_metadata
\* what get_eval_metadata gives its caller: the __metadata__ found (meta of
\* kind "valid"), None (meta of kind "none") or an exception
ProbeReturn(meta) == [status |-> "return", exc |-> "", meta |-> meta]

ProbeRaise(exc) == [status |-> "raise", exc |-> exc, meta |-> NoLocalMeta]

\* the try block of get_eval_metadata, imp being the result of
\* _import_module_from_path: any Exception becomes None
_probe_try(imp) ==
    [out |-> IF imp.out.status = "return" /\ imp.mods[imp.out.value.module].meta.kind = "valid"
             THEN ProbeReturn(imp.mods[imp.out.value.module].meta)
             ELSE ProbeReturn(NoLocalMeta),
     mods |-> imp.mods, uuid |-> imp.uuid, events |-> imp.events]

\* Result: out as above, mods and uuid are sys.modules and the uuid counter
\* afterwards, events what the dynamic load did.
get_eval_metadata(path_like, order) ==
    LET p == expanduser(path_like)
        untouched == [out |-> ProbeReturn(NoLocalMeta), mods |-> sys_modules,
                      uuid |-> uuid_counter, events |-> <<>>]
    IN  IF ~p.ok THEN [untouched EXCEPT !.out = ProbeRaise("RuntimeError")]
        ELSE IF StatFails(p.path) THEN [untouched EXCEPT !.out = ProbeRaise("OSError")]
        ELSE IF ~exists(p.path) THEN untouched
        ELSE _probe_try(_import_module_from_path(p.path, order, sys_modules, uuid_counter))

\* ------------------------------------------------------- local evals on disk
TopLevelMeta == LocalMeta("valid", <<"simpleqa", "simpleqa">>, "simpleqa")

TaskFile == FileBody(FALSE, NoLocalMeta, {"simpleqa"}, <<>>)

Package(entry, siblings) == FsEntry("dir", FALSE, TRUE, entry, siblings)

\* a package whose __init__.py declares "simpleqa.simpleqa" and whose
\* simpleqa.py defines the task
PkgOk == Package(FileBody(FALSE, TopLevelMeta, {}, <<>>), "simpleqa" :> TaskFile)

PkgNoInit == FsEntry("dir", FALSE, FALSE, EmptyBody, "simpleqa" :> TaskFile)

PkgNoMeta == Package(EmptyBody, "simpleqa" :> TaskFile)

PkgWrongMeta == Package(FileBody(FALSE, LocalMeta("wrong", <<>>, ""), {}, <<>>), "simpleqa" :> TaskFile)

PkgBadModule ==
    Package(FileBody(FALSE, LocalMeta("valid", <<"simpleqa", "other">>, "simpleqa"), {}, <<>>),
            "simpleqa" :> TaskFile)

PkgNoFunction ==
    Package(FileBody(FALSE, LocalMeta("valid", <<"simpleqa", "simpleqa">>, "missing"), {}, <<>>),
            "simpleqa" :> TaskFile)

PkgSiblingRaises ==
    Package(FileBody(FALSE, TopLevelMeta, {}, <<>>),
            ("simpleqa" :> TaskFile) @@ ("broken" :> FileBody(TRUE, NoLocalMeta, {}, <<>>)))

\* a package whose __init__.py imports .simpleqa, which imports .dataset
PkgSiblingImports ==
    Package(FileBody(FALSE, TopLevelMeta, {}, <<"simpleqa">>),
            ("simpleqa" :> FileBody(FALSE, NoLocalMeta, {"simpleqa"}, <<"dataset">>))
            @@ ("dataset" :> FileBody(FALSE, NoLocalMeta, {"load"}, <<>>)))

\* a package whose simpleqa.py imports .broken, which raises
PkgImportRaises ==
    Package(FileBody(FALSE, TopLevelMeta, {}, <<>>),
            ("simpleqa" :> FileBody(FALSE, NoLocalMeta, {"simpleqa"}, <<"broken">>))
            @@ ("broken" :> FileBody(TRUE, NoLocalMeta, {}, <<>>)))

PkgEntryRaises == Package(FileBody(TRUE, TopLevelMeta, {}, <<>>), "simpleqa" :> TaskFile)

\* a single file whose metadata names the module by __name__
FileSelf ==
    FsEntry("file", TRUE, FALSE,
            FileBody(FALSE, LocalMeta("valid", <<"__name__">>, "simpleqa"), {"simpleqa"}, <<>>), <<>>)

\* a single file whose metadata is written as if the eval were top-level
FileTopLevel == FsEntry("file", TRUE, FALSE, FileBody(FALSE, TopLevelMeta, {"simpleqa"}, <<>>), <<>>)

FileNoSuffix == FsEntry("file", FALSE, FALSE, FileBody(FALSE, TopLevelMeta, {"simpleqa"}, <<>>), <<>>)

LocalFixtures ==
    {Absent, Unstatable, PkgOk, PkgNoInit, PkgNoMeta, PkgWrongMeta, PkgBadModule, PkgNoFunction,
     PkgSiblingRaises, PkgSiblingImports, PkgImportRaises, PkgEntryRaises,
     FileSelf, FileTopLevel, FileNoSuffix}

\* ------------------------------------------------------------ the lru_cache
\* functools._make_key: the positional arguments, then the keyword arguments
\* after a marker. form is how the call is written: "default" load_task(n),
\* "positional" load_task(n, flag), "keyword" load_task(n, allow_alpha=flag)
make_key(benchmark_name, form, flag) ==
    [benchmark_name |-> benchmark_name, form |-> form,
     flag |-> IF form = "default" THEN FALSE ELSE flag]

\* the value allow_alpha has in the body (False by default)
EffectiveAlpha(form, flag) == IF form = "default" THEN FALSE ELSE flag

\* the mutant: the entries are found by the benchmark name alone
CacheIndex_by_name(c, key) == {i \in 1..Len(c) : c[i].key.benchmark_name = key.benchmark_name}

CacheIndex(c, key) == {i \in 1..Len(c) : c[i].key = key}

Without(c, i) == SubSeq(c, 1, i - 1) \o SubSeq(c, i + 1, Len(c))

\* a hit makes the entry the most recently used one
cache_hit(c, i) == Append(Without(c, i), c[i])

\* the mutant: the cache is unbounded
cache_store_unbounded(c, key, value) == Append(c, [key |-> key, value |-> value])

\* a miss whose call returned: the least recently used entry makes room
cache_store(c, key, value) ==
    Append(IF Len(c) >= lru_maxsize THEN Tail(c) ELSE c, [key |-> key, value |-> value])

\* -------------------------------------------- scripts/export_benchmarks.py
\* Python values the export inspects with isinstance. A str is the sequence
\* of its tokens, every run of white space being the token " "; the catalog's
\* own strings hold no white space at either end and are one token each.
PyStr(text) == [type |-> "str", text |-> text, items |-> <<>>, bool |-> FALSE]

PyBool(b) == [type |-> "bool", text |-> <<>>, items |-> <<>>, bool |-> b]

\* a list of str or None elements
PyList(items) == [type |-> "list", text |-> <<>>, items |-> items, bool |-> FALSE]

PyTuple(items) == [type |-> "tuple", text |-> <<>>, items |-> items, bool |-> FALSE]

PyInt == [type |-> "int", text |-> <<>>, items |-> <<>>, bool |-> FALSE]

\* None, also what getattr(record, field, None) gives for a missing attribute
PyNone == [type |-> "NoneType", text |-> <<>>, items |-> <<>>, bool |-> FALSE]

\* str.strip(): the white space at both ends is dropped
RECURSIVE lstrip(_)
lstrip(text) == IF Len(text) > 0 /\ text[1] = " " THEN lstrip(Tail(text)) ELSE text

RECURSIVE rstrip(_)
rstrip(text) ==
    IF Len(text) > 0 /\ text[Len(text)] = " " THEN rstrip(SubSeq(text, 1, Len(text) - 1))
    ELSE text

strip(text) == rstrip(lstrip(text))

\* the tokens of the names the model sorts, in the order of their code points
TokenOrder ==
    <<" ", "Core", "GraphWalks Parents", "MMLU (cais/mmlu)", "MMLU Pro (TIGER-Lab)",
      "Zeta", "b", "community", "core", "core evals">>

Ord(token) == CHOOSE i \in 1..Len(TokenOrder) : TokenOrder[i] = token

\* a < b on str (lexicographic)
str_lt(a, b) ==
    \E i \in 1..Len(b) :
        /\ \A j \in 1..(i - 1) : j <= Len(a) /\ a[j] = b[j]
        /\ i = Len(a) + 1 \/ (i <= Len(a) /\ Ord(a[i]) < Ord(b[i]))

\* the result of a normalize function: a row, or the ValueError it raises
Row(row) == [raised |-> FALSE, exc |-> "", what |-> "", row |-> row]

RowError(what) == [raised |-> TRUE, exc |-> "ValueError", what |-> what, row |-> <<>>]

\* the mutant: a str is accepted without looking at its content
clean_str_fails_type_only(val) == val.type # "str"

\* the condition under which clean_str(field) raises
clean_str_fails(val) == val.type # "str" \/ strip(val.text) = <<>>

\* "not isinstance(tags, list) or not tags or not all(...)"
tags_fail(tags) ==
    \/ tags.type # "list"
    \/ tags.items = <<>>
    \/ \E i \in 1..Len(tags.items) : clean_str_fails(tags.items[i])

\* record: attribute name -> value (None when the attribute is missing)
normalize_benchmark(record) ==
    IF clean_str_fails(record.name) THEN RowError("Missing or invalid name")
    ELSE IF clean_str_fails(record.description) THEN RowError("Missing or invalid description")
    ELSE IF clean_str_fails(record.category) THEN RowError("Missing or invalid category")
    ELSE IF clean_str_fails(record.function_name)
    THEN RowError("Missing or invalid function_name")
    ELSE IF tags_fail(record.tags) THEN RowError("Tags must be a non-empty list of strings")
    ELSE IF record.is_alpha.type # "bool" THEN RowError("is_alpha must be a boolean")
    ELSE Row([name |-> strip(record.name.text), description |-> strip(record.description.text),
              category |-> strip(record.category.text),
              tags |-> [i \in 1..Len(record.tags.items) |-> strip(record.tags.items[i].text)],
              function_name |-> strip(record.function_name.text),
              is_alpha |-> record.is_alpha.bool])

normalize_eval_group(group_id, group) ==
    IF clean_str_fails(group.name) THEN RowError("Missing or invalid name in eval group")
    ELSE IF clean_str_fails(group.description)
    THEN RowError("Missing or invalid description in eval group")
    ELSE IF group.benchmarks.type # "list" \/ group.benchmarks.items = <<>>
    THEN RowError("Missing or invalid benchmarks list in eval group")
    ELSE Row([name |-> strip(group.name.text), description |-> strip(group.description.text),
              category |-> "eval-group", tags |-> <<"eval-group">>, id |-> group_id,
              benchmark_count |-> Len(group.benchmarks.items),
              benchmarks |-> group.benchmarks.items])

\* list.sort(key=lambda r: r.get("name", "")): stable, ascending. The row is
\* put behind every row of the sorted part whose name is not greater.
insert_row(sorted, row) ==
    LET n == Cardinality({i \in 1..Len(sorted) : ~str_lt(row.name, sorted[i].name)})
    IN  SubSeq(sorted, 1, n) \o <<row>> \o SubSeq(sorted, n + 1, Len(sorted))

RECURSIVE sort_rows(_, _, _)
sort_rows(rows, i, acc) ==
    IF i > Len(rows) THEN acc ELSE sort_rows(rows, i + 1, insert_row(acc, rows[i]))

\* an attribute of the config module: kind "absent", "other" (not a dict) or
\* "dict" with its items in order
Attr(kind, items) == [kind |-> kind, items |-> items]

\* the loops over all_benchmarks.items() and all_groups.items(), from
\* position i; acc = [raised, exc, what, rows]
RECURSIVE normalize_benchmarks(_, _, _)
normalize_benchmarks(items, i, acc) ==
    IF acc.raised \/ i > Len(items) THEN acc
    ELSE LET r == normalize_benchmark(items[i].value)
         IN  normalize_benchmarks(items, i + 1,
                IF r.raised THEN [acc EXCEPT !.raised = TRUE, !.exc = r.exc, !.what = r.what]
                ELSE [acc EXCEPT !.rows = Append(acc.rows, r.row)])

RECURSIVE normalize_groups(_, _, _)
normalize_groups(items, i, acc) ==
    IF acc.raised \/ i > Len(items) THEN acc
    ELSE LET r == normalize_eval_group(items[i].key, items[i].value)
         IN  normalize_groups(items, i + 1,
                IF r.raised THEN [acc EXCEPT !.raised = TRUE, !.exc = r.exc, !.what = r.what]
                ELSE [acc EXCEPT !.rows = Append(acc.rows, r.row)])

NoRows == [raised |-> FALSE, exc |-> "", what |-> "", rows |-> <<>>]

\* what export_benchmarks ends in: the exception, or the two lists returned;
\* written: whether snippet_mdx_path.write_text was reached
Exported(benchmark_rows, group_rows) ==
    [done |-> TRUE, raised |-> FALSE, exc |-> "", what |-> "", written |-> TRUE,
     benchmark_rows |-> benchmark_rows, group_rows |-> group_rows]

ExportError(exc, what) ==
    [done |-> TRUE, raised |-> TRUE, exc |-> exc, what |-> what, written |-> FALSE,
     benchmark_rows |-> <<>>, group_rows |-> <<>>]

\* export_benchmarks once both loops have run
_export_sorted(b, g) ==
    IF b.raised THEN ExportError(b.exc, b.what)
    ELSE IF g.raised THEN ExportError(g.exc, g.what)
    ELSE Exported(sort_rows(b.rows, 1, <<>>), sort_rows(g.rows, 1, <<>>))

export_benchmarks(config) ==
    IF config.BENCHMARKS.kind # "dict"
    THEN ExportError("AttributeError", "Error loading benchmarks from openbench.config")
    ELSE IF config.EVAL_GROUPS.kind # "dict"
    THEN ExportError("AttributeError", "Error loading eval groups from openbench.config")
    ELSE _export_sorted(normalize_benchmarks(config.BENCHMARKS.items, 1, NoRows),
                        normalize_groups(config.EVAL_GROUPS.items, 1, NoRows))

\* a BenchmarkMetadata of the catalog as the export sees it
AsRecord(meta) ==
    [name |-> PyStr(<<meta.name>>), description |-> PyStr(<<meta.description>>),
     category |-> PyStr(<<meta.category>>),
     tags |-> PyList([i \in 1..Len(meta.tags) |-> PyStr(<<meta.tags[i]>>)]),
     function_name |-> PyStr(<<meta.function_name>>), is_alpha |-> PyBool(meta.is_alpha)]

\* openbench.config as it is in the repository: BENCHMARKS is the catalog
\* and the module defines no EVAL_GROUPS
ShippedConfig ==
    [BENCHMARKS |-> Attr("dict", [i \in 1..Len(BENCHMARK_KEYS) |->
                        [key |-> BENCHMARK_KEYS[i], value |-> AsRecord(BENCHMARKS[BENCHMARK_KEYS[i]])]]),
     EVAL_GROUPS |-> Attr("absent", <<>>)]

\* export_benchmarks has not been called
NoExport ==
    [done |-> FALSE, raised |-> FALSE, exc |-> "", what |-> "", written |-> FALSE,
     benchmark_rows |-> <<>>, group_rows |-> <<>>]

\* the file at snippet_mdx_path: whether it exists and the two lists in it
NoFile == [exists |-> FALSE, benchmarksData |-> <<>>, evalGroupsData |-> <<>>]

\* ----------------------- the catalog functions on the dict object BENCHMARKS
\* A dict object: its keys in insertion order and its items. The functions
\* below are the catalog functions reading BENCHMARKS as it is at the call.
Dict(order, items) == [order |-> order, items |-> items]

\* BENCHMARKS as the module's import leaves it
Catalog0 == Dict(BENCHMARK_KEYS, BENCHMARKS)

\* d[k] = v: a new key goes to the end, a present key keeps its place
dict_set(d, k, v) ==
    IF k \in DOMAIN d.items THEN Dict(d.order, [d.items EXCEPT ![k] = v])
    ELSE Dict(Append(d.order, k), (k :> v) @@ d.items)

\* del d[k], k being a key of d
dict_del(d, k) ==
    Dict(SelectSeq(d.order, LAMBDA x : x # k), [x \in DOMAIN d.items \ {k} |-> d.items[x]])

\* {name: meta for name, meta in d.items() if name is one of keep}
dict_filter(d, keep) ==
    LET order == SelectSeq(d.order, LAMBDA k : k \in keep)
    IN  Dict(order, [k \in Range(order) |-> d.items[k]])

\* what a function returning a mapping returns: the dict, and whether it is
\* the object BENCHMARKS itself rather than a new dict
Mapping(is_BENCHMARKS, dict) == [is_BENCHMARKS |-> is_BENCHMARKS, dict |-> dict]

\* get_all_benchmarks: `return BENCHMARKS` when include_alpha
get_all_benchmarks_from(benchmarks, include_alpha) ==
    IF include_alpha THEN Mapping(TRUE, benchmarks)
    ELSE Mapping(FALSE, dict_filter(benchmarks, {k \in DOMAIN benchmarks.items : ~benchmarks.items[k].is_alpha}))

get_benchmarks_by_category(benchmarks, category, include_alpha) ==
    LET results == dict_filter(benchmarks, {k \in DOMAIN benchmarks.items : benchmarks.items[k].category = category})
    IN  Mapping(FALSE, IF include_alpha THEN results
                       ELSE dict_filter(results, {k \in DOMAIN results.items : ~results.items[k].is_alpha}))

\* sorted(list(set(meta.category for meta in BENCHMARKS.values())))
get_categories(benchmarks) ==
    LET cats == {benchmarks.items[k].category : k \in DOMAIN benchmarks.items}
    IN  CHOOSE s \in [1..Cardinality(cats) -> cats] :
            /\ Range(s) = cats
            /\ \A i, j \in 1..Len(s) : i < j => str_lt(<<s[i]>>, <<s[j]>>)

\* str.lower() of the queries the caller searches for
lower(query) == IF query = "MMLU" THEN "mmlu" ELSE query

\* `query in text.lower()` for the lower-case queries and the strings of the
\* records: the strings in which the query occurs
Occurrences ==
    [mmlu |-> {"Enhanced version of MMLU", "MMLU (cais/mmlu)", "MMLU Pro (TIGER-Lab)"},
     graph |-> {"GraphWalks Parents",
                "Multi-hop reasoning on graphs - parent finding tasks only", "graphs"},
     custom |-> {"custom"}]

Contains(query, text) == text \in Occurrences[query]

search_benchmarks(benchmarks, query, include_alpha) ==
    LET q == lower(query)
        matches(k) ==
            LET meta == benchmarks.items[k]
            IN  /\ include_alpha \/ ~meta.is_alpha
                /\ \/ Contains(q, meta.name)
                   \/ Contains(q, meta.description)
                   \/ \E i \in 1..Len(meta.tags) : Contains(q, meta.tags[i])
    IN  Mapping(FALSE, dict_filter(benchmarks, {k \in DOMAIN benchmarks.items : matches(k)}))

\* get_benchmark_metadata reading the dict; the normalized index is the one
\* built when the module was imported
get_benchmark_metadata_from(benchmarks, name) ==
    LET metadata == Get(benchmarks.items, name)
        canonical_name == Get(_NORMALIZED_BENCHMARK_NAMES, _normalize_benchmark_key(name))
        both == <<"BENCHMARKS.get", "_NORMALIZED_BENCHMARK_NAMES.get">>
    IN  IF metadata.found
        THEN [found |-> TRUE, meta |-> metadata.value, steps |-> <<"BENCHMARKS.get">>,
              raised |-> FALSE]
        ELSE IF Truthy(canonical_name)
             THEN IF canonical_name.value \in DOMAIN benchmarks.items
                  THEN [found |-> TRUE, meta |-> benchmarks.items[canonical_name.value],
                        steps |-> both, raised |-> FALSE]
                  ELSE [found |-> FALSE, meta |-> NoMeta, steps |-> both, raised |-> TRUE]
             ELSE [found |-> FALSE, meta |-> NoMeta, steps |-> both, raised |-> FALSE]

\* ------------------------------------------------------------------ callers
\* no call of a catalog function is under way
NoQuery == [op |-> "none", name |-> <<>>, include_alpha |-> FALSE, kwargs |-> <<>>]

NoAnswer == [done |-> TRUE, result |-> <<>>]

Id_mmlu_pro_underscore == <<"mmlu", "_", "pro">>
Id_graphwalks_dash == <<"graphwalks", "-", "parents">>
Id_unknown == <<"nonexistent", "_", "benchmark">>
Id_local == <<"~", "/evals/my", "-", "eval">>
Id_no_user == <<"~nosuchuser", "/evals">>

\* the identifiers the caller passes to load_task
Identifiers ==
    {K_mmlu_pro, Id_mmlu_pro_underscore, K_graphwalks_parents,
     Id_graphwalks_dash, Id_unknown, Id_local, Id_no_user}

\* the registry modules those identifiers lead to
CalledModules ==
    {rsplit(ResolveImportPath(n).import_path).module_path :
        n \in {x \in Identifiers : ResolveImportPath(x).found}}

Forms == {"default", "positional", "keyword"}

\* the orders in which path.glob("*.py") can yield the siblings of a directory
Orders(S) ==
    {o \in [1..Cardinality(S) -> S] : \A i, j \in 1..Cardinality(S) : i # j => o[i] # o[j]}

GlobOrders(path) ==
    IF exists(path) /\ fs[path].kind = "dir" /\ fs[path].has_init
    THEN Orders(DOMAIN fs[path].siblings) ELSE {<<>>}

Observation(benchmark_name, form, flag, hit, out, steps) ==
    [benchmark_name |-> benchmark_name, form |-> form, flag |-> flag,
     allow_alpha |-> EffectiveAlpha(form, flag), hit |-> hit, out |-> out, steps |-> steps]

\* the mutant: whatever the body ends in is stored under the key
cache_miss_stores_failures(benchmark_name, form, key, r) ==
    /\ cache' = cache_store(cache, key, r.out.value)
    /\ sys_modules' = r.mods
    /\ uuid_counter' = r.uuid
    /\ history' = Append(history,
           Observation(benchmark_name, form, key.flag, FALSE, r.out, r.steps))
    /\ modules_log' = modules_log \o r.events
    /\ UNCHANGED <<installed, exported, fs, probes, catalog_vars, export_vars, caller_vars>>

\* A cache miss: the body has run with result r; a value returned is stored
\* under the key, an exception is not.
cache_miss(benchmark_name, form, key, r) ==
    /\ cache' = IF r.out.status = "return"
                THEN cache_store(cache, key, r.out.value) ELSE cache
    /\ sys_modules' = r.mods
    /\ uuid_counter' = r.uuid
    /\ history' = Append(history,
           Observation(benchmark_name, form, key.flag, FALSE, r.out, r.steps))
    /\ modules_log' = modules_log \o r.events
    /\ UNCHANGED <<installed, exported, fs, probes, catalog_vars, export_vars, caller_vars>>

\* One call of the decorated load_task, written in `form`.
LoadTaskCall(benchmark_name, form, flag) ==
    LET key == make_key(benchmark_name, form, flag)
        at == CacheIndex(cache, key)
    IN  IF at # {}
        THEN LET i == CHOOSE i \in at : TRUE
             IN  /\ cache' = cache_hit(cache, i)
                 /\ history' = Append(history,
                        Observation(benchmark_name, form, key.flag, TRUE,
                            [Return(<<>>, "") EXCEPT !.value = cache[i].value], <<>>))
                 /\ UNCHANGED <<sys_modules, uuid_counter, installed, exported, fs,
                                probes, modules_log, catalog_vars, export_vars, caller_vars>>
        ELSE \E order \in GlobOrders(expanduser(benchmark_name).path) :
             cache_miss(benchmark_name, form, key,
                        load_task(benchmark_name, EffectiveAlpha(form, flag), order))

\* The caller exercises the registry (and the local eval) when the local
\* eval is in order, and the path fallback when it is not.
CallerIdentifiers ==
    IF \A p \in DOMAIN fs : fs[p] = PkgOk
    THEN Identifiers \ {Id_no_user}
    ELSE {Id_graphwalks_dash, Id_unknown, Id_local, Id_no_user}

\* the paths the caller probes
ProbedPaths == {Id_local, Id_no_user}

\* the call has ended with result r
probe_done(path_like, r) ==
    /\ probes' = Append(probes, [path_like |-> path_like, out |-> r.out])
    /\ sys_modules' = r.mods
    /\ uuid_counter' = r.uuid
    /\ modules_log' = modules_log \o r.events
    /\ UNCHANGED <<cache, installed, exported, fs, history, catalog_vars, export_vars, caller_vars>>

\* One call of get_eval_metadata.
GetEvalMetadata ==
    /\ Len(history) + Len(probes) < MaxCalls
    /\ \E path_like \in ProbedPaths :
          \E order \in GlobOrders(expanduser(path_like).path) :
             probe_done(path_like, get_eval_metadata(path_like, order))

LoadTask ==
    /\ Len(history) + Len(probes) < MaxCalls
    /\ \E benchmark_name \in CallerIdentifiers, form \in Forms, flag \in BOOLEAN :
          /\ form = "default" => flag = FALSE
          /\ LoadTaskCall(benchmark_name, form, flag)

LocalPaths == {expanduser(Id_local).path}

\* sys.modules once openbench.config has been imported
BaseModules ==
    (<<"openbench">> :> Module({}, NoLocalMeta, TRUE))
    @@ (<<"openbench", "config">> :> Module({"load_task"}, NoLocalMeta, FALSE))

\* ------------------------------------------------------------ specification
\* The process after `import openbench.config`, in an environment in which
\* at most MaxFaults of the registry modules the caller asks for are faulty;
\* the local eval is varied when the installation is intact.
Init ==
    /\ cache = <<>>
    /\ sys_modules = BaseModules
    /\ uuid_counter = 1
    /\ history = <<>>
    /\ probes = <<>>
    /\ modules_log = <<>>
    /\ query_in = NoQuery
    /\ query_out = NoAnswer
    /\ config_module = ShippedConfig
    /\ export_out = NoExport
    /\ snippet_file = NoFile
    /\ catalog_obj = Catalog0
    /\ held = <<>>
    /\ keys_in = BENCHMARK_KEYS
    /\ lookup_out = [done |-> TRUE, result |-> _build_normalized_lookup(keys_in)]
    /\ \E broken \in SUBSET CalledModules, missing \in SUBSET CalledModules :
          /\ broken \cap missing = {}
          /\ Cardinality(broken \cup missing) <= MaxFaults
          /\ installed = RegistryModules \ broken
          /\ exported = [m \in RegistryModules |-> IF m \in missing THEN {} ELSE ShippedExports[m]]
          /\ fs \in [LocalPaths -> LocalFixtures]
          /\ (broken \cup missing # {}) => \A p \in LocalPaths : fs[p] = PkgOk

Next == LoadTask \/ GetEvalMetadata

Spec == Init /\ [][Next]_vars

\* ------------------------------- local evals named like registry identifiers
\* relative paths spelled like a registry key or like an alias of one
ShadowPaths == {K_mmlu_pro, Id_mmlu_pro_underscore, K_graphwalks_parents, Id_graphwalks_dash}

\* The process started in a directory that holds a local eval under each of
\* those names, next to the local eval of the home directory.
InitShadow ==
    /\ cache = <<>>
    /\ sys_modules = BaseModules
    /\ uuid_counter = 1
    /\ history = <<>>
    /\ probes = <<>>
    /\ modules_log = <<>>
    /\ query_in = NoQuery
    /\ query_out = NoAnswer
    /\ config_module = ShippedConfig
    /\ export_out = NoExport
    /\ snippet_file = NoFile
    /\ catalog_obj = Catalog0
    /\ held = <<>>
    /\ keys_in = BENCHMARK_KEYS
    /\ lookup_out = [done |-> TRUE, result |-> _build_normalized_lookup(keys_in)]
    /\ \E broken \in SUBSET CalledModules, missing \in SUBSET CalledModules :
          /\ broken \cap missing = {}
          /\ Cardinality(broken \cup missing) <= MaxFaults
          /\ installed = RegistryModules \ broken
          /\ exported = [m \in RegistryModules |-> IF m \in missing THEN {} ELSE ShippedExports[m]]
    /\ fs = [p \in LocalPaths \cup ShadowPaths |-> PkgOk]

SpecShadow == InitShadow /\ [][Next]_vars

\* --------------------------------------- a caller retrying after a repair
\* the identifiers the retrying caller asks for
RetryIdentifiers == {K_mmlu_pro, Id_graphwalks_dash, Id_local}

\* the installation is as shipped and the local eval is in order
EnvIntact ==
    /\ installed = RegistryModules
    /\ exported = ShippedExports
    /\ \A p \in DOMAIN fs : fs[p] = PkgOk

\* Outside the process, what was wrong is put right: the missing package is
\* installed, the module's file gets its function, the local eval is
\* created or corrected. Nothing in the process is touched.
Repair ==
    /\ ~EnvIntact
    /\ installed' = RegistryModules
    /\ exported' = ShippedExports
    /\ fs' = [p \in DOMAIN fs |-> PkgOk]
    /\ UNCHANGED <<cache, sys_modules, uuid_counter, history, probes, modules_log,
                   catalog_vars, export_vars, caller_vars>>

LoadTaskRetry ==
    /\ Len(history) < MaxCalls
    /\ \E benchmark_name \in RetryIdentifiers, form \in Forms, flag \in BOOLEAN :
          /\ form = "default" => flag = FALSE
          /\ LoadTaskCall(benchmark_name, form, flag)

NextRetry == LoadTaskRetry \/ Repair

SpecRetry == Init /\ [][NextRetry]_vars

\* ------------------------------------------------- a caller sweeping local evals
\* the n-th local eval directory of the sweep
SweepId(n) == <<"/evals/e" \o ToString(n)>>

\* the sweep loads more distinct evals than the cache holds
SweepCalls == lru_maxsize + SweepExtra

SweepPaths == {expanduser(SweepId(n)).path : n \in 1..SweepCalls}

InitSweep ==
    /\ cache = <<>>
    /\ sys_modules = BaseModules
    /\ uuid_counter = 1
    /\ history = <<>>
    /\ probes = <<>>
    /\ modules_log = <<>>
    /\ query_in = NoQuery
    /\ query_out = NoAnswer
    /\ config_module = ShippedConfig
    /\ export_out = NoExport
    /\ snippet_file = NoFile
    /\ catalog_obj = Catalog0
    /\ held = <<>>
    /\ keys_in = BENCHMARK_KEYS
    /\ lookup_out = [done |-> TRUE, result |-> _build_normalized_lookup(keys_in)]
    /\ installed = RegistryModules
    /\ exported = ShippedExports
    /\ fs = [p \in SweepPaths |-> PkgOk]

\* for p in paths: load_task(p)
SweepLoad ==
    /\ Len(history) < SweepCalls
    /\ LoadTaskCall(SweepId(Len(history) + 1), "default", FALSE)

\* then the first eval is asked for again
SweepRepeat ==
    /\ Len(history) = SweepCalls
    /\ LoadTaskCall(SweepId(1), "default", FALSE)

NextSweep == SweepLoad \/ SweepRepeat

SpecSweep == InitSweep /\ [][NextSweep]_vars

\* ------------------------------------------- _build_normalized_lookup on its own
\* the keys the inputs are drawn from
KeyPool ==
    {<<>>, <<"mmlu">>, <<"mmlu", "-", "pro">>, <<"mmlu", "_", "pro">>,
     <<"a", "-", "b", "_", "c">>, <<"a", "_", "b", "-", "c">>}

KeySequences == UNION {[1..n -> KeyPool] : n \in 0..MaxKeys}

NotBuilt == [raised |-> FALSE, existing |-> <<>>, key |-> <<>>, lookup |-> <<>>]

InitLookup ==
    /\ cache = <<>>
    /\ sys_modules = BaseModules
    /\ uuid_counter = 1
    /\ history = <<>>
    /\ probes = <<>>
    /\ modules_log = <<>>
    /\ query_in = NoQuery
    /\ query_out = NoAnswer
    /\ config_module = ShippedConfig
    /\ export_out = NoExport
    /\ snippet_file = NoFile
    /\ catalog_obj = Catalog0
    /\ held = <<>>
    /\ installed = RegistryModules
    /\ exported = ShippedExports
    /\ fs = [p \in LocalPaths |-> Absent]
    /\ keys_in \in KeySequences
    /\ lookup_out = [done |-> FALSE, result |-> NotBuilt]

BuildLookup ==
    /\ ~lookup_out.done
    /\ lookup_out' = [done |-> TRUE, result |-> _build_normalized_lookup(keys_in)]
    /\ UNCHANGED <<loader_vars, keys_in, query_in, query_out, export_vars, caller_vars>>

NextLookup == BuildLookup

SpecLookup == InitLookup /\ [][NextLookup]_vars

\* ------------------------------------------------ the catalog functions on their own
\* the tokens the names are made of
Tokens == {"mmlu", "pro", "graphwalks", "parents", "-", "_"}

QueryNames == UNION {[1..n -> Tokens] : n \in 0..MaxTokens}

\* an argument that is not given, or given with one of the values
Arg(values, default) ==
    {[given |-> FALSE, value |-> default]} \cup {[given |-> TRUE, value |-> v] : v \in values}

NoKwargs ==
    [name |-> [given |-> FALSE, value |-> ""], description |-> [given |-> FALSE, value |-> ""],
     category |-> [given |-> FALSE, value |-> ""], tags |-> [given |-> FALSE, value |-> <<>>],
     module_path |-> [given |-> FALSE, value |-> <<>>],
     function_name |-> [given |-> FALSE, value |-> ""],
     is_alpha |-> [given |-> FALSE, value |-> FALSE]]

\* the keyword arguments BenchmarkMetadata is called with: each left out,
\* blank or as in the catalog
KwargsPool ==
    [name : Arg({"", "MMLU Pro (TIGER-Lab)"}, ""),
     description : Arg({"", "Enhanced version of MMLU"}, ""),
     category : Arg({"", "core"}, ""),
     tags : Arg({<<>>, <<"">>, <<"knowledge">>}, <<>>),
     module_path : Arg({<<>>, <<"openbench", "evals", "mmlu_pro">>}, <<>>),
     function_name : Arg({"", "mmlu_pro"}, ""),
     is_alpha : Arg(BOOLEAN, FALSE)]

Query(op, name, include_alpha, kwargs) ==
    [op |-> op, name |-> name, include_alpha |-> include_alpha, kwargs |-> kwargs]

Queries ==
    {Query(op, n, FALSE, NoKwargs) :
        op \in {"get_benchmark_metadata", "ResolveImportPath"}, n \in QueryNames}
    \cup {Query(op, <<>>, a, NoKwargs) :
            op \in {"get_all_benchmarks", "_generate_task_registry"}, a \in BOOLEAN}
    \cup {Query("BenchmarkMetadata", <<>>, FALSE, kw) : kw \in KwargsPool}

InitCatalog ==
    /\ cache = <<>>
    /\ sys_modules = BaseModules
    /\ uuid_counter = 1
    /\ history = <<>>
    /\ probes = <<>>
    /\ modules_log = <<>>
    /\ installed = RegistryModules
    /\ exported = ShippedExports
    /\ fs = [p \in LocalPaths |-> Absent]
    /\ keys_in = BENCHMARK_KEYS
    /\ lookup_out = [done |-> TRUE, result |-> _build_normalized_lookup(keys_in)]
    /\ config_module = ShippedConfig
    /\ export_out = NoExport
    /\ snippet_file = NoFile
    /\ catalog_obj = Catalog0
    /\ held = <<>>
    /\ query_in \in Queries
    /\ query_out = [done |-> FALSE, result |-> <<>>]

\* the call under way ends with the result
answer(result) ==
    /\ query_out' = [done |-> TRUE, result |-> result]
    /\ UNCHANGED <<loader_vars, keys_in, lookup_out, query_in, export_vars, caller_vars>>

GetBenchmarkMetadata ==
    /\ query_in.op = "get_benchmark_metadata" /\ ~query_out.done
    /\ answer(get_benchmark_metadata(query_in.name))

GetAllBenchmarks ==
    /\ query_in.op = "get_all_benchmarks" /\ ~query_out.done
    /\ answer(get_all_benchmarks(query_in.include_alpha))

GenerateTaskRegistry ==
    /\ query_in.op = "_generate_task_registry" /\ ~query_out.done
    /\ answer(_generate_task_registry(query_in.include_alpha))

NewBenchmarkMetadata ==
    /\ query_in.op = "BenchmarkMetadata" /\ ~query_out.done
    /\ answer(BenchmarkMetadata__init__(query_in.kwargs))

\* the registry resolution of load_task, for the name
ResolveInRegistry ==
    /\ query_in.op = "ResolveImportPath" /\ ~query_out.done
    /\ answer(ResolveImportPath(query_in.name))

NextCatalog ==
    \/ GetBenchmarkMetadata
    \/ GetAllBenchmarks
    \/ GenerateTaskRegistry
    \/ NewBenchmarkMetadata
    \/ ResolveInRegistry

SpecCatalog == InitCatalog /\ [][NextCatalog]_vars

\* ------------------------------------------ the documentation export on its own
\* a record the export accepts
GoodRecord ==
    [name |-> PyStr(<<"b">>), description |-> PyStr(<<"a benchmark">>),
     category |-> PyStr(<<"core">>), tags |-> PyList(<<PyStr(<<"knowledge">>)>>),
     function_name |-> PyStr(<<"b">>), is_alpha |-> PyBool(FALSE)]

\* the values a field of a record is varied over
FieldValues ==
    [name |-> {PyStr(<<>>), PyStr(<<" ">>), PyNone, PyStr(<<" ", "Zeta", " ">>)},
     description |-> {PyStr(<<>>), PyStr(<<" ">>), PyNone},
     category |-> {PyStr(<<" ">>), PyInt},
     function_name |-> {PyStr(<<>>), PyNone},
     tags |-> {PyList(<<>>), PyList(<<PyStr(<<" ">>)>>), PyList(<<PyStr(<<"t">>), PyNone>>),
               PyTuple(<<PyStr(<<"t">>)>>), PyNone,
               PyList(<<PyStr(<<" ", "t">>)>>)},
     is_alpha |-> {PyInt, PyNone, PyStr(<<"yes">>), PyBool(TRUE)}]

\* the good record, and the good record with one field varied
RecordPool ==
    {GoodRecord} \cup
    {[GoodRecord EXCEPT ![f] = v] : <<f, v>> \in
        UNION {{<<f, v>> : v \in FieldValues[f]} : f \in DOMAIN FieldValues}}

Group(name, description, benchmarks) ==
    [name |-> name, description |-> description, benchmarks |-> benchmarks]

G_core == Group(PyStr(<<"core evals">>), PyStr(<<"the core set">>), PyList(<<PyStr(<<"mmlu">>)>>))

G_Core == Group(PyStr(<<" ", "Core">>), PyStr(<<"the core set">>), PyList(<<PyStr(<<"mmlu">>)>>))

\* the values EVAL_GROUPS is varied over
GroupAttrs ==
    {Attr("absent", <<>>), Attr("other", <<>>), Attr("dict", <<>>),
     Attr("dict", <<[key |-> "core", value |-> G_core]>>),
     Attr("dict", <<[key |-> "core", value |-> G_core], [key |-> "Core", value |-> G_Core]>>),
     Attr("dict", <<[key |-> "core", value |-> [G_core EXCEPT !.name = PyStr(<<" ">>)]]>>),
     Attr("dict", <<[key |-> "core", value |-> [G_core EXCEPT !.description = PyNone]]>>),
     Attr("dict", <<[key |-> "core", value |-> [G_core EXCEPT !.benchmarks = PyList(<<>>)]]>>)}

\* a dict of n records under the keys e1 .. en
RecordItems(n) ==
    {[i \in 1..n |-> [key |-> <<"e" \o ToString(i)>>, value |-> f[i]]] : f \in [1..n -> RecordPool]}

\* the modules the export is run against: the shipped one, the shipped
\* catalog with some EVAL_GROUPS, and catalogs of up to max records
ConfigModules(max) ==
    {ShippedConfig}
    \cup {[ShippedConfig EXCEPT !.EVAL_GROUPS = g] : g \in GroupAttrs}
    \cup {[BENCHMARKS |-> Attr("other", <<>>), EVAL_GROUPS |-> Attr("dict", <<>>)]}
    \cup {[BENCHMARKS |-> Attr("dict", items), EVAL_GROUPS |-> g] :
            items \in UNION {RecordItems(n) : n \in 0..max}, g \in GroupAttrs}

InitExport ==
    /\ cache = <<>>
    /\ sys_modules = BaseModules
    /\ uuid_counter = 1
    /\ history = <<>>
    /\ probes = <<>>
    /\ modules_log = <<>>
    /\ installed = RegistryModules
    /\ exported = ShippedExports
    /\ fs = [p \in LocalPaths |-> Absent]
    /\ keys_in = BENCHMARK_KEYS
    /\ lookup_out = [done |-> TRUE, result |-> _build_normalized_lookup(keys_in)]
    /\ query_in = NoQuery
    /\ query_out = NoAnswer
    /\ config_module \in ConfigModules(MaxRecords)
    /\ export_out = NoExport
    /\ snippet_file = NoFile
    /\ catalog_obj = Catalog0
    /\ held = <<>>

\* the call has ended in r; the file is written when write_text was reached
export_done(r) ==
    /\ export_out' = r
    /\ snippet_file' = IF r.written
                       THEN [exists |-> TRUE, benchmarksData |-> r.benchmark_rows,
                             evalGroupsData |-> r.group_rows]
                       ELSE snippet_file
    /\ UNCHANGED <<loader_vars, catalog_vars, config_module, caller_vars>>

\* One run of export_benchmarks(snippet_mdx_path).
ExportBenchmarks ==
    /\ ~export_out.done
    /\ export_done(export_benchmarks(config_module))

NextExport == ExportBenchmarks

SpecExport == InitExport /\ [][NextExport]_vars

\* --------------------------------- a caller editing the mappings it was given
\* the record and the key the caller adds
NewRecord ==
    BenchmarkMetadata("My Eval", "A caller's own eval", "community", <<"custom">>,
                      <<"my_evals", "my_eval">>, "my_eval", FALSE)

K_new == <<"my", "-", "eval">>

\* a call of a catalog function that returns a mapping
MappingCall(op, arg, include_alpha) == [op |-> op, arg |-> arg, include_alpha |-> include_alpha]

\* the contents, now, of the i-th mapping the caller holds
contents(i) == IF held[i].is_BENCHMARKS THEN catalog_obj ELSE held[i].dict

InitCaller ==
    /\ cache = <<>>
    /\ sys_modules = BaseModules
    /\ uuid_counter = 1
    /\ history = <<>>
    /\ probes = <<>>
    /\ modules_log = <<>>
    /\ installed = RegistryModules
    /\ exported = ShippedExports
    /\ fs = [p \in LocalPaths |-> PkgOk]
    /\ keys_in = BENCHMARK_KEYS
    /\ lookup_out = [done |-> TRUE, result |-> _build_normalized_lookup(keys_in)]
    /\ query_in = NoQuery
    /\ query_out = NoAnswer
    /\ config_module = ShippedConfig
    /\ export_out = NoExport
    /\ snippet_file = NoFile
    /\ catalog_obj = Catalog0
    /\ held = <<>>

\* the caller keeps the mapping m that `call` returned
CallerHolds(call, m) ==
    /\ held' = Append(held, [call |-> call, returned |-> m.dict,
                             is_BENCHMARKS |-> m.is_BENCHMARKS, dict |-> m.dict, edits |-> 0])
    /\ UNCHANGED <<catalog_obj, loader_vars, catalog_vars, export_vars>>

CallerGetsAll ==
    /\ Len(held) < MaxHeld
    /\ \E include_alpha \in BOOLEAN :
          CallerHolds(MappingCall("get_all_benchmarks", "", include_alpha),
                      get_all_benchmarks_from(catalog_obj, include_alpha))

CallerGetsCategory ==
    /\ Len(held) < MaxHeld
    /\ \E category \in {"core", "community"}, include_alpha \in BOOLEAN :
          CallerHolds(MappingCall("get_benchmarks_by_category", category, include_alpha),
                      get_benchmarks_by_category(catalog_obj, category, include_alpha))

CallerSearches ==
    /\ Len(held) < MaxHeld
    /\ \E query \in {"MMLU", "graph", "custom"}, include_alpha \in BOOLEAN :
          CallerHolds(MappingCall("search_benchmarks", query, include_alpha),
                      search_benchmarks(catalog_obj, query, include_alpha))

CallerAsksMetadata ==
    \E name \in {K_mmlu, Id_graphwalks_dash, K_new} :
        /\ query_in' = Query("get_benchmark_metadata", name, FALSE, NoKwargs)
        /\ query_out' = [done |-> TRUE, result |-> get_benchmark_metadata_from(catalog_obj, name)]
        /\ UNCHANGED <<loader_vars, keys_in, lookup_out, export_vars, caller_vars>>

CallerAsksCategories ==
    /\ query_in' = Query("get_categories", <<>>, FALSE, NoKwargs)
    /\ query_out' = [done |-> TRUE, result |-> get_categories(catalog_obj)]
    /\ UNCHANGED <<loader_vars, keys_in, lookup_out, export_vars, caller_vars>>

\* the caller's calls of load_task, made before it edits a mapping
CallerLoadsTask ==
    /\ Len(history) < MaxCalls
    /\ \A i \in 1..Len(held) : held[i].edits = 0
    /\ \E benchmark_name \in {K_mmlu_pro, Id_local} :
          LoadTaskCall(benchmark_name, "default", FALSE)

\* the i-th mapping becomes d: the catalog itself when the mapping is BENCHMARKS
edited(i, d) ==
    /\ catalog_obj' = IF held[i].is_BENCHMARKS THEN d ELSE catalog_obj
    /\ held' = [held EXCEPT ![i].dict = IF held[i].is_BENCHMARKS THEN @ ELSE d,
                            ![i].edits = @ + 1]
    /\ UNCHANGED <<loader_vars, catalog_vars, export_vars>>

\* mapping[key] = record
CallerAdds ==
    \E i \in 1..Len(held), k \in {K_mmlu, K_new} :
        /\ held[i].edits < MaxEdits
        /\ edited(i, dict_set(contents(i), k, NewRecord))

\* del mapping[key]
CallerRemoves ==
    \E i \in 1..Len(held) :
        /\ held[i].edits < MaxEdits
        /\ \E k \in DOMAIN contents(i).items : edited(i, dict_del(contents(i), k))

NextCaller ==
    \/ CallerGetsAll
    \/ CallerGetsCategory
    \/ CallerSearches
    \/ CallerAsksMetadata
    \/ CallerAsksCategories
    \/ CallerLoadsTask
    \/ CallerAdds
    \/ CallerRemoves

SpecCaller == InitCaller /\ [][NextCaller]_vars

\* ================================================================== claims
Calls == 1..Len(history)

\* two identifiers that differ at most in the use of "-" versus "_"
SameUpToSeparators(a, b) ==
    /\ Len(a) = Len(b)
    /\ \A i \in 1..Len(a) : a[i] = b[i] \/ {a[i], b[i]} \subseteq {"-", "_"}

\* the catalog keys an identifier stands for: itself when it is a key,
\* otherwise the keys it equals up to separators
ResolvesTo(name) ==
    IF name \in DOMAIN BENCHMARKS THEN {name}
    ELSE {k \in DOMAIN BENCHMARKS : SameUpToSeparators(k, name)}

ResolvesToAlpha(name) == \E k \in ResolvesTo(name) : BENCHMARKS[k].is_alpha

IsAlphaGateError(out) ==
    /\ out.status = "raise"
    /\ out.exc = "ValueError"
    /\ out.tmpl = "is an experimental/alpha benchmark. Use --alpha flag to run it."

IsUnknownBenchmarkError(out) ==
    /\ out.status = "raise"
    /\ out.exc = "ValueError"
    /\ out.tmpl = "Unknown benchmark. Available benchmarks:"

\* the registry implementation of key k is in working order
Intact(k) ==
    /\ BENCHMARKS[k].module_path \in installed
    /\ BENCHMARKS[k].function_name \in exported[BENCHMARKS[k].module_path]

\* what a load of key k that gets past the gate must end in
RegistryOutcome(k, out) ==
    LET m == BENCHMARKS[k].module_path
        f == BENCHMARKS[k].function_name
    IN  /\ Intact(k) => out.status = "return" /\ out.value = [module |-> m, attr |-> f]
        /\ m \notin installed => out.status = "raise" /\ out.exc = "ImportError"
        /\ (m \in installed /\ f \notin exported[m]) =>
              out.status = "raise" /\ out.exc = "AttributeError"

\* C1 as stated: for every identifier that resolves (exactly or up to
\* separators) to an alpha record, load_task without allow_alpha fails with
\* the alpha-gate error and load_task with allow_alpha succeeds.
C1_AlphaOptInAlwaysSucceeds ==
    \A i \in Calls :
        ResolvesToAlpha(history[i].benchmark_name) =>
            IF history[i].allow_alpha THEN history[i].out.status = "return"
            ELSE IsAlphaGateError(history[i].out)

\* C1 amended: for every identifier that resolves to an alpha record,
\* load_task without allow_alpha fails with the alpha-gate error quoting the
\* identifier; with allow_alpha it never fails with the alpha-gate error: it
\* returns the record's callable when the record's module imports and defines
\* the function, fails with ImportError when the module does not import and
\* with AttributeError when the function is missing.
C1_AlphaGate ==
    \A i \in Calls :
        LET h == history[i]
        IN  ResolvesToAlpha(h.benchmark_name) =>
                IF h.allow_alpha
                THEN /\ ~IsAlphaGateError(h.out)
                     /\ \A k \in ResolvesTo(h.benchmark_name) : RegistryOutcome(k, h.out)
                ELSE IsAlphaGateError(h.out) /\ h.out.subject = h.benchmark_name

\* C1 witness: the dash alias of an alpha key is refused, then loaded with opt-in
C1_Witness ==
    \E i, j \in Calls :
        /\ history[i].benchmark_name = Id_graphwalks_dash
        /\ ~history[i].allow_alpha /\ IsAlphaGateError(history[i].out)
        /\ history[j].benchmark_name = Id_graphwalks_dash
        /\ history[j].allow_alpha /\ history[j].out.status = "return"

\* C2: a call of load_task that ends with the alpha-gate error has performed
\* the metadata lookup only: no registry lookup, no import, no filesystem
\* access; sys.modules, the uuid counter and the cache are as before the call.
C2_GateBeforeResolution ==
    [][(Len(history') = Len(history) + 1 /\ IsAlphaGateError(history'[Len(history')].out)) =>
          /\ sys_modules' = sys_modules
          /\ uuid_counter' = uuid_counter
          /\ cache' = cache
          /\ Range(history'[Len(history')].steps) \subseteq
                {"BENCHMARKS.get", "_NORMALIZED_BENCHMARK_NAMES.get"}]_vars

\* C2 witness: a gated call made when the cache already holds an entry
C2_Witness ==
    /\ Len(history) = 2
    /\ IsAlphaGateError(history[2].out)
    /\ history[2].benchmark_name = Id_graphwalks_dash
    /\ cache # <<>>

\* the identifier stands for a registry entry
RegistryResolves(name) ==
    \E k \in DOMAIN TASK_REGISTRY : k = name \/ SameUpToSeparators(k, name)

\* C3: for two identifiers that differ only in "-" versus "_" and resolve to
\* a registry entry, load_task returns the identical callable: whenever both
\* calls return, the objects are the same, and once one has returned, a later
\* call for the other that is not alpha-gated returns too.
C3_AliasSameObject ==
    \A i, j \in Calls :
        LET a == history[i]
            b == history[j]
        IN  (/\ a.benchmark_name # b.benchmark_name
             /\ SameUpToSeparators(a.benchmark_name, b.benchmark_name)
             /\ RegistryResolves(a.benchmark_name)
             /\ a.out.status = "return") =>
                /\ b.out.status = "return" => b.out.value = a.out.value
                /\ (i < j /\ ~(ResolvesToAlpha(b.benchmark_name) /\ ~b.allow_alpha)) =>
                      b.out.status = "return"

\* C3 witness: load_task("mmlu-pro") and load_task("mmlu_pro") both returned
C3_Witness ==
    \E i, j \in Calls :
        /\ history[i].benchmark_name = K_mmlu_pro /\ history[i].out.status = "return"
        /\ history[j].benchmark_name = Id_mmlu_pro_underscore /\ history[j].out.status = "return"

\* C4 as stated: once load_task has returned for a pair (identifier,
\* allow_alpha), every later call with the same pair returns the identical
\* object from the cache and performs no resolution step.
C4_MemoizedPerPair ==
    \A i, j \in Calls :
        (/\ i < j
         /\ history[i].benchmark_name = history[j].benchmark_name
         /\ history[i].allow_alpha = history[j].allow_alpha
         /\ history[i].out.status = "return") =>
            /\ history[j].out.status = "return"
            /\ history[j].out.value = history[i].out.value
            /\ history[j].hit
            /\ history[j].steps = <<>>

\* C5 as stated: the cache never evicts; a call written like an earlier
\* call that returned is served from the cache with the first call's object,
\* however many other pairs were loaded in between.
C5_NeverEvicts ==
    \A i, j \in Calls :
        (/\ i < j
         /\ history[i].benchmark_name = history[j].benchmark_name
         /\ history[i].form = history[j].form
         /\ history[i].flag = history[j].flag
         /\ history[i].out.status = "return") =>
            /\ history[j].hit
            /\ history[j].out.value = history[i].out.value

\* the identifier names nothing: no catalog or registry key, exactly or up
\* to separators, and no existing path
NamesNothing(name) ==
    /\ ResolvesTo(name) = {}
    /\ ~RegistryResolves(name)
    /\ ~(expanduser(name).ok /\ exists(expanduser(name).path))

\* C6: for every identifier that matches no catalog or registry key and
\* names no existing path, load_task fails with the unknown-benchmark error,
\* whose message quotes the identifier and every key of the task registry.
C6_UnknownListsRegistry ==
    \A i \in Calls :
        LET h == history[i]
        IN  NamesNothing(h.benchmark_name) =>
                /\ IsUnknownBenchmarkError(h.out)
                /\ h.out.subject = h.benchmark_name
                /\ DOMAIN TASK_REGISTRY \subseteq Range(h.out.keys)

\* the call ran the body of load_task and got past the alpha gate
PastGate(h) == ~h.hit /\ ~(ResolvesToAlpha(h.benchmark_name) /\ ~h.allow_alpha)

\* the registry keys an identifier stands for only as an alias
AliasedKeys(name) ==
    IF name \in DOMAIN TASK_REGISTRY THEN {}
    ELSE {k \in DOMAIN TASK_REGISTRY : SameUpToSeparators(k, name)}

\* the outcome comes from the registry entry of key k
UsesEntry(k, out) ==
    LET m == BENCHMARKS[k].module_path
        f == BENCHMARKS[k].function_name
    IN  IF out.status = "return" THEN out.value = [module |-> m, attr |-> f]
        ELSE out.subject \in {m, Append(m, f)}

\* C7: when the identifier is literally a registry key, the registry's
\* normalized index is not consulted and the key's own entry is used; the
\* normalized index is consulted exactly when the exact lookup misses, and
\* the entry of the canonical key it yields is then used.
C7_ExactBeforeNormalized ==
    \A i \in Calls :
        LET h == history[i]
            consulted == "_NORMALIZED_TASK_REGISTRY.get" \in Range(h.steps)
        IN  PastGate(h) =>
                /\ "TASK_REGISTRY.get" \in Range(h.steps)
                /\ consulted <=> h.benchmark_name \notin DOMAIN TASK_REGISTRY
                /\ h.benchmark_name \in DOMAIN TASK_REGISTRY => UsesEntry(h.benchmark_name, h.out)
                /\ \A k \in AliasedKeys(h.benchmark_name) : UsesEntry(k, h.out)

\* C7 witness: a literal key and an alias have both been resolved
C7_Witness ==
    \E i, j \in Calls :
        /\ history[i].benchmark_name = K_mmlu_pro /\ PastGate(history[i])
        /\ history[i].out.status = "return"
        /\ history[j].benchmark_name = Id_graphwalks_dash /\ PastGate(history[j])
        /\ history[j].out.status = "return"

\* the failure kinds, told by the exception's class and message
KindNames ==
    {"alpha-gated", "unknown benchmark", "import failure", "missing attribute",
     "no entry file", "no valid metadata", "raised by the eval",
     "no home directory", "stat failure"}

IsKind(kind, out) ==
    CASE kind = "alpha-gated" -> IsAlphaGateError(out)
      [] kind = "unknown benchmark" -> IsUnknownBenchmarkError(out)
      [] kind = "import failure" -> out.exc = "ImportError"
      [] kind = "missing attribute" -> out.exc = "AttributeError"
      [] kind = "no entry file" ->
            out.exc = "ValueError" /\ out.tmpl = "is a directory but has no __init__.py"
      [] kind = "no valid metadata" ->
            out.exc = "ValueError" /\ out.tmpl = "has no valid __metadata__"
      [] kind = "raised by the eval" -> out.exc = "Exception"
      [] kind = "no home directory" -> out.exc = "RuntimeError"
      [] kind = "stat failure" -> out.exc = "OSError"

KindsOf(out) == {kind \in KindNames : IsKind(kind, out)}

RegistryKeysOf(name) ==
    IF name \in DOMAIN TASK_REGISTRY THEN {name} ELSE AliasedKeys(name)

\* C9: when a registry entry is found, load_task splits its import path at
\* the last dot, imports the module and returns the attribute; a failed
\* import surfaces as ImportError and a missing attribute as AttributeError,
\* never as the unknown-benchmark error, and the path fallback is not tried.
C9_RegistryErrorsPropagate ==
    \A i \in Calls :
        LET h == history[i]
        IN  (PastGate(h) /\ RegistryResolves(h.benchmark_name)) =>
                /\ \A k \in RegistryKeysOf(h.benchmark_name) : RegistryOutcome(k, h.out)
                /\ ~IsUnknownBenchmarkError(h.out)
                /\ {"rsplit", "import_module"} \subseteq Range(h.steps)
                /\ Range(h.steps) \cap {"expanduser", "exists", "uuid4"} = {}

\* C9 witness: one registry entry failed to import, another was returned
C9_Witness ==
    \E i, j \in Calls :
        /\ RegistryResolves(history[i].benchmark_name)
        /\ history[i].out.exc = "ImportError"
        /\ RegistryResolves(history[j].benchmark_name)
        /\ ~history[j].hit /\ history[j].out.status = "return"

\* the sequence holds two distinct keys that are equal up to separators
Collides(names) ==
    \E i, j \in 1..Len(names) :
        names[i] # names[j] /\ SameUpToSeparators(names[i], names[j])

\* C10: _build_normalized_lookup raises the collision error, naming two
\* distinct keys of the input that are equal up to separators, whenever the
\* input holds such keys, and returns a lookup otherwise; a key repeated
\* verbatim is no collision.
C10_CollisionRaises ==
    lookup_out.done =>
        LET r == lookup_out.result
        IN  /\ r.raised <=> Collides(keys_in)
            /\ r.raised =>
                  /\ r.existing # r.key
                  /\ SameUpToSeparators(r.existing, r.key)
                  /\ {r.existing, r.key} \subseteq Range(keys_in)

\* C10 witness: a key repeated verbatim, then a colliding key
C10_Witness ==
    /\ lookup_out.done
    /\ lookup_out.result.raised
    /\ Len(keys_in) = 3
    /\ keys_in[1] = keys_in[2]
    /\ keys_in[3] # keys_in[2]

\* the normalized form of a key, stated on its own: every separator is "_"
Normalized(k) == [i \in 1..Len(k) |-> IF k[i] \in {"-", "_"} THEN "_" ELSE k[i]]

\* C11: when _build_normalized_lookup returns, the lookup maps the normalized
\* form of every key handed in to that key, and holds no other entry: its
\* domain is exactly the set of the normalized keys.
C11_IndexIsNormalizedKeys ==
    (lookup_out.done /\ ~lookup_out.result.raised) =>
        LET lookup == lookup_out.result.lookup
        IN  /\ DOMAIN lookup = {Normalized(k) : k \in Range(keys_in)}
            /\ \A k \in Range(keys_in) : lookup[Normalized(k)] = k

\* C11 witness: a lookup built from three distinct keys, one of them hyphenated
C11_Witness ==
    /\ lookup_out.done
    /\ ~lookup_out.result.raised
    /\ Cardinality(Range(keys_in)) = 3
    /\ \E k \in Range(keys_in) : "-" \in Range(k)

\* the call of catalog function op has ended
Answered(op) == query_in.op = op /\ query_out.done

\* the catalog keys whose normalized form is that of the name
KeysNormalizingLike(name) == {k \in DOMAIN BENCHMARKS : Normalized(k) = Normalized(name)}

\* C12: get_benchmark_metadata(name) returns the record stored under name
\* when name is a catalog key; otherwise the record of the catalog key whose
\* normalized form equals that of name, when there is one; otherwise None.
\* It raises for no name.
C12_MetadataLookup ==
    Answered("get_benchmark_metadata") =>
        LET name == query_in.name
            r == query_out.result
        IN  /\ ~r.raised
            /\ name \in DOMAIN BENCHMARKS => r.found /\ r.meta = BENCHMARKS[name]
            /\ (name \notin DOMAIN BENCHMARKS /\ KeysNormalizingLike(name) # {}) =>
                  r.found /\ \E k \in KeysNormalizingLike(name) : r.meta = BENCHMARKS[k]
            /\ KeysNormalizingLike(name) = {} => ~r.found

\* C12 witness: the record of "mmlu-pro" has been found for "mmlu_pro"
C12_Witness ==
    /\ Answered("get_benchmark_metadata")
    /\ query_in.name = <<"mmlu", "_", "pro">>
    /\ query_out.result.found
    /\ query_out.result.meta = BENCHMARKS[K_mmlu_pro]

\* C13: get_all_benchmarks(False) returns exactly the catalog entries that
\* are not alpha, get_all_benchmarks(True) every catalog entry; the keys and
\* the records are those of the catalog.
C13_AllBenchmarks ==
    Answered("get_all_benchmarks") =>
        LET items == query_out.result.items
        IN  /\ DOMAIN items =
                  {k \in DOMAIN BENCHMARKS : query_in.include_alpha \/ ~BENCHMARKS[k].is_alpha}
            /\ \A k \in DOMAIN items : items[k] = BENCHMARKS[k]
            /\ Range(query_out.result.order) = DOMAIN items

\* C13 witness: the call without alpha entries left an alpha entry out
C13_Witness ==
    /\ Answered("get_all_benchmarks")
    /\ ~query_in.include_alpha
    /\ K_mmlu \in DOMAIN query_out.result.items
    /\ K_graphwalks_parents \notin DOMAIN query_out.result.items

\* C14: TASK_REGISTRY has exactly the catalog's keys, the alpha ones
\* included, and _generate_task_registry(False) exactly the keys that are not
\* alpha; the value of every key is the record's module_path, a dot and the
\* record's function_name.
C14_RegistryFromCatalog ==
    /\ DOMAIN TASK_REGISTRY = DOMAIN BENCHMARKS
    /\ \A k \in DOMAIN TASK_REGISTRY :
          TASK_REGISTRY[k] = BENCHMARKS[k].module_path \o <<BENCHMARKS[k].function_name>>
    /\ Answered("_generate_task_registry") =>
          LET registry == query_out.result
          IN  /\ DOMAIN registry =
                    {k \in DOMAIN BENCHMARKS : query_in.include_alpha \/ ~BENCHMARKS[k].is_alpha}
              /\ \A k \in DOMAIN registry :
                    registry[k] = BENCHMARKS[k].module_path \o <<BENCHMARKS[k].function_name>>

\* C14 witness: the registry without alpha entries has been generated
C14_Witness ==
    /\ Answered("_generate_task_registry")
    /\ ~query_in.include_alpha
    /\ query_out.result[K_mmlu_pro] = <<"openbench", "evals", "mmlu_pro", "mmlu_pro">>
    /\ K_graphwalks_parents \notin DOMAIN query_out.result
    /\ K_graphwalks_parents \in DOMAIN TASK_REGISTRY

\* a blank string: empty or white space only
Blank(str) == str \in {"", " "}

\* the arguments leave a field out or blank, or the tags empty or with a
\* blank tag
Malformed(kwargs) ==
    \/ \E f \in RequiredFields : ~kwargs[f].given
    \/ \E f \in {"name", "description", "category", "function_name"} : Blank(kwargs[f].value)
    \/ kwargs.module_path.value = <<>>
    \/ kwargs.tags.value = <<>>
    \/ \E i \in 1..Len(kwargs.tags.value) : Blank(kwargs.tags.value[i])

\* C15 as stated: constructing a BenchmarkMetadata whose name, description,
\* category, module_path or function_name is missing or blank, or whose tag
\* list is empty or holds a blank tag, fails at construction time.
C15_ConstructionValidates ==
    (Answered("BenchmarkMetadata") /\ Malformed(query_in.kwargs)) =>
        query_out.result.status = "raise"

\* the name is a path to a directory without __init__.py
NoEntryDir(name) ==
    LET p == expanduser(name)
    IN  /\ p.ok
        /\ p.path \in DOMAIN fs
        /\ fs[p.path].kind = "dir"
        /\ ~fs[p.path].has_init

\* this step is a call of load_task that ran the body
LoadTaskMissStep == Len(history') = Len(history) + 1 /\ ~history'[Len(history')].hit

\* this step is a call of get_eval_metadata
ProbeStep == Len(probes') = Len(probes) + 1

\* C16: loading a directory that has no __init__.py fails with the "is a
\* directory but has no __init__.py" ValueError before a synthetic module
\* name is generated or registered and before a file of the directory is
\* executed: the uuid counter, sys.modules and the log of the dynamic loads
\* are as before the call (get_eval_metadata turns the error into None).
C16_NoEntryFileFailsFirst ==
    [][/\ (LoadTaskMissStep /\ NoEntryDir(history'[Len(history')].benchmark_name)) =>
             /\ IsKind("no entry file", history'[Len(history')].out)
             /\ history'[Len(history')].out.status = "raise"
             /\ history'[Len(history')].out.subject =
                    expanduser(history'[Len(history')].benchmark_name).path
             /\ Range(history'[Len(history')].steps) \cap
                    {"uuid4", "register_root", "exec_sibling", "exec_entry"} = {}
             /\ uuid_counter' = uuid_counter
             /\ sys_modules' = sys_modules
             /\ modules_log' = modules_log
       /\ (ProbeStep /\ NoEntryDir(probes'[Len(probes')].path_like)) =>
             /\ probes'[Len(probes')].out = ProbeReturn(NoLocalMeta)
             /\ uuid_counter' = uuid_counter
             /\ sys_modules' = sys_modules
             /\ modules_log' = modules_log]_vars

\* C16 witness: a directory without __init__.py was probed and then loaded
C16_Witness ==
    /\ Len(probes) = 1
    /\ NoEntryDir(probes[1].path_like)
    /\ Len(history) = 1
    /\ IsKind("no entry file", history[1].out)
    /\ uuid_counter = 1

\* the positions of the log at which the event stands
At(ev, name) == {i \in 1..Len(modules_log) : modules_log[i] = Event(ev, name)}

\* the root names of the dynamic loads so far
LoggedRoots == {modules_log[i].name : i \in {j \in 1..Len(modules_log) : Len(modules_log[j].name) = 1}}

\* the directories on disk that can be loaded
Packages == {p \in DOMAIN fs : fs[p].kind = "dir" /\ fs[p].has_init}

\* C17: when a directory is loaded, every sibling source file of __init__.py
\* has been registered under the synthetic package name and has finished
\* executing before the body of __init__.py starts, so that a relative import
\* of a sibling in __init__.py succeeds: it binds nothing anew, and
\* __init__.py fails only if its own code raises.
C17_SiblingsBeforeEntry ==
    \A p \in Packages, root \in LoggedRoots :
        \A start \in At("exec_start", root) :
            /\ \A stem \in DOMAIN fs[p].siblings :
                  \E b \in At("bind", root \o <<stem>>), e \in At("exec_end", root \o <<stem>>) :
                     b < e /\ e < start
            /\ \A i \in (start + 1)..Len(modules_log) :
                  modules_log[i].name[1] = root[1] => modules_log[i].ev \in {"exec_end", "exec_raise"}
            /\ At("exec_raise", root) # {} => fs[p].entry.raises

\* C17 witness: a package whose __init__.py imports a sibling has been loaded
C17_Witness ==
    \E p \in Packages, root \in LoggedRoots :
        /\ fs[p].entry.imports # <<>>
        /\ At("exec_end", root) # {}
        /\ \E i \in Calls : history[i].out.status = "return" /\ history[i].out.value.module[1] = root[1]

\* the local eval the call of load_task was about, if the identifier is a path
LocalEntry(h) == fs[expanduser(h.benchmark_name).path]

\* the call loaded a local path and the files ran to their end
LoadedAndExecuted(h) ==
    /\ ~h.hit
    /\ "exec_entry" \in Range(h.steps)
    /\ ~IsKind("raised by the eval", h.out)

\* C18: after a local path has been loaded and executed, if the module has
\* no __metadata__ or one that is not a BenchmarkMetadata, the call fails with
\* the "has no valid __metadata__" ValueError quoting the path, and the task
\* module is neither resolved nor imported.
C18_NoValidMetadata ==
    \A i \in Calls :
        LET h == history[i]
        IN  (LoadedAndExecuted(h) /\ LocalEntry(h).entry.meta.kind \in {"none", "wrong"}) =>
                /\ h.out.status = "raise"
                /\ KindsOf(h.out) = {"no valid metadata"}
                /\ h.out.subject = expanduser(h.benchmark_name).path
                /\ Range(h.steps) \cap {"local_import_module", "local_getattr"} = {}

\* C18 witness: a package whose __init__.py defines no __metadata__ was loaded
C18_Witness ==
    \E i \in Calls :
        /\ LoadedAndExecuted(history[i])
        /\ LocalEntry(history[i]).entry.meta.kind = "none"
        /\ IsKind("no valid metadata", history[i].out)

\* the root names this step has bound in sys.modules
NewRoots == {n \in DOMAIN sys_modules' \ DOMAIN sys_modules : Len(n) = 1}

\* the module a local load must import: the declared path when it starts
\* with the root's name, otherwise the root's name and the last component
TaskModule(root, declared) ==
    IF declared # <<>> /\ declared[1] = root[1] THEN declared
    ELSE root \o <<declared[Len(declared)]>>

\* C19: for a local load with valid metadata, the module imported is the
\* declared module_path verbatim when it starts with the root's synthetic
\* name, and otherwise the root's name, a dot and the last component of the
\* declared module_path; the call returns the attribute function_name of
\* that module, fails with ImportError when the module cannot be imported
\* and with AttributeError when it lacks the function.
C19_LocalTaskModule ==
    [][(/\ LoadTaskMissStep
        /\ LoadedAndExecuted(history'[Len(history')])
        /\ \A root \in NewRoots : sys_modules'[root].meta.kind = "valid") =>
          /\ Cardinality(NewRoots) = 1
          /\ \A root \in NewRoots :
                LET h == history'[Len(history')]
                    metadata == sys_modules'[root].meta
                    target == TaskModule(root, metadata.module_path)
                IN  /\ "local_import_module" \in Range(h.steps)
                    /\ target \notin DOMAIN sys_modules' =>
                          /\ h.out.status = "raise"
                          /\ KindsOf(h.out) = {"import failure"}
                          /\ h.out.subject = target
                    /\ (/\ target \in DOMAIN sys_modules'
                        /\ metadata.function_name \notin sys_modules'[target].attrs) =>
                          /\ h.out.status = "raise"
                          /\ KindsOf(h.out) = {"missing attribute"}
                          /\ h.out.subject = Append(target, metadata.function_name)
                    /\ (/\ target \in DOMAIN sys_modules'
                        /\ metadata.function_name \in sys_modules'[target].attrs) =>
                          h.out = Return(target, metadata.function_name)]_vars

\* the outcomes of the local loads so far that found valid metadata
LocalOutcomes ==
    {history[i].out : i \in {j \in Calls : /\ LoadedAndExecuted(history[j])
                                           /\ LocalEntry(history[j]).entry.meta.kind = "valid"}}

\* C19 witness: a single file that names its module by __name__ has been
\* loaded and its function returned from the root module itself
C19_Witness ==
    \E out \in LocalOutcomes :
        /\ out.status = "return"
        /\ Len(out.value.module) = 1
        /\ out.value.attr = "simpleqa"

\* C19 second witness: a declared top-level path was resolved below the root
C19_WitnessRelative ==
    \E out \in LocalOutcomes :
        /\ out.status = "return"
        /\ Len(out.value.module) = 2
        /\ out.value.module[2] = "simpleqa"

\* the positions of the log at which the name is bound in sys.modules
BoundAt(name) == At("bind", name)

\* the names the dynamic loads have bound so far
LoggedNames == {modules_log[i].name : i \in 1..Len(modules_log)}

\* C20 as stated: across any sequence of dynamic loads, through load_task or
\* get_eval_metadata, successful or failed, every load registers its modules
\* under a root name no earlier load has used, and a synthetic module name,
\* once registered, is never removed from sys.modules nor bound to another
\* module object.
C20_FreshPermanentNames ==
    /\ \A name \in LoggedNames :
          /\ Cardinality(BoundAt(name)) = 1
          /\ At("unbind", name) = {}
          /\ name \in DOMAIN sys_modules
    /\ \A name \in LoggedNames : name \notin DOMAIN BaseModules

\* the probes made so far
Probes == 1..Len(probes)

\* every file of the eval at the path runs to its end and the entry file
\* leaves a BenchmarkMetadata in __metadata__
ProbeLoads(path_like) ==
    LET p == expanduser(path_like)
        e == fs[p.path]
    IN  /\ p.ok /\ p.path \in DOMAIN fs
        /\ \/ e.kind = "file" /\ e.py_suffix
           \/ e.kind = "dir" /\ e.has_init /\ \A s \in DOMAIN e.siblings : ~e.siblings[s].raises
        /\ ~e.entry.raises
        /\ e.entry.meta.kind = "valid"

\* C21 as stated: get_eval_metadata never raises, whatever the path; it
\* returns the metadata object exactly when the load succeeds and
\* __metadata__ is a BenchmarkMetadata, and None in every other case.
C21_ProbeNeverRaises ==
    \A i \in Probes :
        /\ probes[i].out.status = "return"
        /\ probes[i].out.meta.kind = "valid" <=> ProbeLoads(probes[i].path_like)

\* a str that is empty or white space only
BlankText(v) == v.type = "str" /\ \A i \in 1..Len(v.text) : v.text[i] = " "

\* a record with one of the defects C22 lists
Defective(record) ==
    \/ \E f \in {"name", "description", "category", "function_name"} : BlankText(record[f])
    \/ record.tags.type = "list" /\ record.tags.items = <<>>
    \/ record.tags.type = "list" /\ \E i \in 1..Len(record.tags.items) : BlankText(record.tags.items[i])
    \/ record.is_alpha.type # "bool"

\* the records of the catalog the export has been run against
ExportedRecords ==
    IF config_module.BENCHMARKS.kind = "dict"
    THEN {config_module.BENCHMARKS.items[i].value : i \in 1..Len(config_module.BENCHMARKS.items)}
    ELSE {}

\* C22: when a record of the catalog has a blank name, description, category
\* or function_name, an empty tag list, a blank tag or an is_alpha that is
\* not a bool, export_benchmarks ends in an exception and the output file
\* has not been written.
C22_ExportRejectsDefects ==
    (export_out.done /\ \E record \in ExportedRecords : Defective(record)) =>
        export_out.raised /\ ~snippet_file.exists

\* C22 witness: a catalog whose only defect is one blank description, every
\* eval group being in order, has been refused with a ValueError
C22_Witness ==
    /\ export_out.done
    /\ config_module.EVAL_GROUPS.kind = "dict"
    /\ Len(config_module.EVAL_GROUPS.items) = 2
    /\ \E record \in ExportedRecords :
          /\ record = [GoodRecord EXCEPT !.description = PyStr(<<" ">>)]
          /\ \A other \in ExportedRecords \ {record} : ~Defective(other)
    /\ export_out.raised /\ export_out.exc = "ValueError"
    /\ export_out.what = "Missing or invalid description"
    /\ ~snippet_file.exists

\* the rows are in ascending order of their names
SortedByName(rows) ==
    \A i, j \in 1..Len(rows) : i < j => ~str_lt(rows[j].name, rows[i].name)

\* C23 as stated: run against the shipped configuration module,
\* export_benchmarks succeeds; it produces one benchmark row for every catalog
\* record and one row for every eval group, each of the two lists in
\* ascending order of the row's name.
C23_ShippedExportSucceeds ==
    (export_out.done /\ config_module = ShippedConfig) =>
        /\ ~export_out.raised
        /\ snippet_file.exists
        /\ Len(export_out.benchmark_rows) = Cardinality(DOMAIN BENCHMARKS)
        /\ \A k \in DOMAIN BENCHMARKS :
              \E i \in 1..Len(export_out.benchmark_rows) :
                  export_out.benchmark_rows[i].name = <<BENCHMARKS[k].name>>
        /\ Len(export_out.group_rows) = Len(config_module.EVAL_GROUPS.items)
        /\ SortedByName(export_out.benchmark_rows)
        /\ SortedByName(export_out.group_rows)

\* the call examined the filesystem or executed a file of a local eval
TouchedPath(h) ==
    \E i \in 1..Len(h.steps) :
        h.steps[i] \in {"expanduser", "exists", "uuid4", "register_root", "register_sibling",
                        "exec_sibling", "exec_entry", "import_sibling",
                        "local_import_module", "local_getattr"}

\* C24: load_task treats the identifier as a filesystem path only when the
\* registry has no entry for it, exactly or after normalization; when the
\* identifier resolves in the registry and a file or directory of that name
\* exists too, the registry entry is what is loaded and the path is neither
\* examined nor executed.
C24_RegistryBeforePath ==
    /\ \A i \in Calls : TouchedPath(history[i]) => ~RegistryResolves(history[i].benchmark_name)
    /\ \A i \in Calls :
          (RegistryResolves(history[i].benchmark_name) /\ history[i].out.status = "return") =>
              history[i].out.value.module \in RegistryModules
    /\ (probes = <<>> /\ \A i \in Calls : RegistryResolves(history[i].benchmark_name)) =>
          modules_log = <<>> /\ uuid_counter = 1

\* C24 witness: "mmlu_pro", an alias of a registry key and the name of an
\* existing directory, has been loaded from the registry
C24_Witness ==
    \E i \in Calls :
        /\ history[i].benchmark_name = Id_mmlu_pro_underscore
        /\ exists(history[i].benchmark_name)
        /\ ~history[i].hit
        /\ history[i].out = Return(<<"openbench", "evals", "mmlu_pro">>, "mmlu_pro")
        /\ ~TouchedPath(history[i])

\* C25: the catalog's normalized index and the registry's agree: for every
\* identifier, get_benchmark_metadata finds a record exactly when the registry
\* resolution of load_task (exact, then normalized) finds an entry, and the
\* record found is that of the key the registry resolves to, whose import
\* path is the one then imported.
C25_IndexesAgree ==
    Answered("ResolveImportPath") =>
        LET res == query_out.result
            benchmark_meta == get_benchmark_metadata(query_in.name)
        IN  /\ benchmark_meta.found <=> res.found
            /\ ~benchmark_meta.raised
            /\ res.found =>
                  /\ res.benchmark_name \in DOMAIN BENCHMARKS
                  /\ benchmark_meta.meta = BENCHMARKS[res.benchmark_name]
                  /\ res.import_path =
                        Append(BENCHMARKS[res.benchmark_name].module_path,
                               BENCHMARKS[res.benchmark_name].function_name)

\* C25 witness: the dash alias of an alpha key resolves, in the registry, to
\* the key whose record get_benchmark_metadata finds
C25_Witness ==
    /\ Answered("ResolveImportPath")
    /\ query_in.name = Id_graphwalks_dash
    /\ query_out.result.found
    /\ query_out.result.benchmark_name = K_graphwalks_parents
    /\ get_benchmark_metadata(query_in.name).meta = BENCHMARKS[K_graphwalks_parents]
    /\ BENCHMARKS[K_graphwalks_parents].is_alpha

\* the callables of the alpha records
AlphaCallables ==
    {[module |-> BENCHMARKS[k].module_path, attr |-> BENCHMARKS[k].function_name] :
        k \in {x \in DOMAIN BENCHMARKS : BENCHMARKS[x].is_alpha}}

\* C26: no sequence of load_task calls hands out an alpha benchmark without
\* opt-in. No call without allow_alpha returns the callable of an alpha
\* record; and once a call with allow_alpha has returned for an identifier, a
\* later call without allow_alpha for that identifier or for a
\* hyphen/underscore alias of it fails with the alpha-gate error and is not
\* served from the cache.
C26_NoAlphaWithoutOptIn ==
    /\ \A j \in Calls :
          (~history[j].allow_alpha /\ history[j].out.status = "return") =>
              history[j].out.value \notin AlphaCallables
    /\ \A i, j \in Calls :
          (/\ i < j
           /\ ResolvesToAlpha(history[i].benchmark_name)
           /\ history[i].allow_alpha /\ history[i].out.status = "return"
           /\ SameUpToSeparators(history[i].benchmark_name, history[j].benchmark_name)
           /\ ~history[j].allow_alpha) =>
              /\ IsAlphaGateError(history[j].out)
              /\ ~history[j].hit

\* C26 witness: "graphwalks_parents" was loaded with opt-in and cached, and
\* the same identifier was then refused without opt-in
C26_Witness ==
    /\ Len(history) = 2
    /\ history[1].benchmark_name = K_graphwalks_parents
    /\ history[1].allow_alpha /\ history[1].out.value \in AlphaCallables
    /\ \E i \in 1..Len(cache) : cache[i].value \in AlphaCallables
    /\ history[2].benchmark_name = K_graphwalks_parents
    /\ ~history[2].allow_alpha
    /\ IsAlphaGateError(history[2].out)

\* the call ran a dynamic import
ImportedDynamically(h) == \E i \in 1..Len(h.steps) : h.steps[i] = "uuid4"

\* C27 as stated: the memoization key of load_task is the pair (identifier,
\* allow_alpha) however the call is written: the cache holds at most one
\* entry for a pair, and once a call for a local path has returned, a later
\* call with the same pair, written in whatever form, returns the same
\* callable without a second dynamic import.
C27_KeyIsThePair ==
    /\ \A i, j \in 1..Len(cache) :
          (/\ cache[i].key.benchmark_name = cache[j].key.benchmark_name
           /\ cache[i].key.flag = cache[j].key.flag) => i = j
    /\ \A i, j \in Calls :
          (/\ i < j
           /\ history[i].benchmark_name = history[j].benchmark_name
           /\ history[i].allow_alpha = history[j].allow_alpha
           /\ ImportedDynamically(history[i])
           /\ history[i].out.status = "return") =>
              /\ history[j].out = history[i].out
              /\ ~ImportedDynamically(history[j])

\* the step is a call of load_task; LastCall is what the caller observed
CallStep == Len(history') = Len(history) + 1

LastCall == history'[Len(history')]

\* an earlier call for the pair ended in an exception
FailedBefore(name, allow_alpha) ==
    \E i \in Calls :
        /\ history[i].benchmark_name = name
        /\ history[i].allow_alpha = allow_alpha
        /\ history[i].out.status = "raise"

\* an earlier call for the pair returned
ReturnedBefore(name, allow_alpha) ==
    \E i \in Calls :
        /\ history[i].benchmark_name = name
        /\ history[i].allow_alpha = allow_alpha
        /\ history[i].out.status = "return"

\* the pair is refused by the alpha gate, whatever the environment
Gated(name, allow_alpha) == ResolvesToAlpha(name) /\ ~allow_alpha

\* the registry module of the identifier is in sys.modules without the
\* function the registry names
StaleRegistryModule(name) ==
    \E k \in ResolvesTo(name) :
        /\ BENCHMARKS[k].module_path \in DOMAIN sys_modules
        /\ BENCHMARKS[k].function_name \notin sys_modules[BENCHMARKS[k].module_path].attrs

\* a call served from the cache gets what an earlier call written the same
\* way returned; a call for a pair that has only failed so far runs the body
NeverMemoized(h) ==
    /\ h.hit => \E i \in Calls :
                    /\ history[i].benchmark_name = h.benchmark_name
                    /\ history[i].form = h.form /\ history[i].flag = h.flag
                    /\ history[i].out.status = "return"
                    /\ history[i].out.value = h.out.value
    /\ (FailedBefore(h.benchmark_name, h.allow_alpha)
            /\ ~ReturnedBefore(h.benchmark_name, h.allow_alpha)) =>
          ~h.hit /\ h.steps # <<>>

\* C28 as stated: failed calls are never memoized; after a call for a pair
\* has failed, a later call with the same pair runs the resolution again and
\* succeeds if the cause has gone; a failure for (identifier, false) does not
\* affect the outcome for (identifier, true).
C28_RetrySucceeds ==
    [][CallStep =>
        LET h == LastCall
        IN  /\ NeverMemoized(h)
            /\ (/\ FailedBefore(h.benchmark_name, h.allow_alpha)
                /\ EnvIntact
                /\ ~Gated(h.benchmark_name, h.allow_alpha)) => h.out.status = "return"
            /\ (/\ FailedBefore(h.benchmark_name, FALSE)
                /\ h.allow_alpha
                /\ EnvIntact) => h.out.status = "return"]_vars

\* C28 amended: as above, except that a registry module that was imported
\* without its function stays in sys.modules: the call keeps failing with
\* AttributeError although the module's file has been corrected.
C28_FailuresNotMemoized ==
    [][CallStep =>
        LET h == LastCall
        IN  /\ NeverMemoized(h)
            /\ (/\ FailedBefore(h.benchmark_name, h.allow_alpha)
                /\ EnvIntact
                /\ ~Gated(h.benchmark_name, h.allow_alpha)) =>
                  IF StaleRegistryModule(h.benchmark_name)
                  THEN h.out.status = "raise" /\ h.out.exc = "AttributeError"
                  ELSE h.out.status = "return"
            /\ (/\ FailedBefore(h.benchmark_name, FALSE)
                /\ h.allow_alpha
                /\ EnvIntact
                /\ ~StaleRegistryModule(h.benchmark_name)) => h.out.status = "return"]_vars

\* C28 witness: the path did not exist and the call failed; the eval was
\* created; the same call then ran again and returned
C28_Witness ==
    /\ Len(history) = 2
    /\ IsUnknownBenchmarkError(history[1].out)
    /\ history[1].benchmark_name = Id_local
    /\ history[2].benchmark_name = Id_local
    /\ history[2].form = history[1].form /\ history[2].flag = history[1].flag
    /\ EnvIntact
    /\ ~history[2].hit
    /\ history[2].out.status = "return"

\* the call was given the path of a single source file that defines the
\* function its __metadata__ names, the module_path being written as for a
\* top-level benchmark
SingleFileEval(h) ==
    LET e == LocalEntry(h)
    IN  /\ ~RegistryResolves(h.benchmark_name)
        /\ expanduser(h.benchmark_name).ok
        /\ expanduser(h.benchmark_name).path \in DOMAIN fs
        /\ e.kind = "file" /\ e.py_suffix
        /\ ~e.entry.raises
        /\ e.entry.meta.kind = "valid"
        /\ e.entry.meta.module_path # <<>>
        /\ e.entry.meta.module_path[1] # "__name__"
        /\ e.entry.meta.function_name \in e.entry.defines

\* C29 as stated: load_task on the path of such a file returns the function
\* the metadata names.
C29_SingleFileLoads ==
    \A i \in Calls :
        SingleFileEval(history[i]) =>
            /\ history[i].out.status = "return"
            /\ history[i].out.value.attr = LocalEntry(history[i]).entry.meta.function_name

\* what the call of a mapping-returning catalog function gives on the
\* catalog as the import left it
Pristine(call) ==
    CASE call.op = "get_all_benchmarks" -> get_all_benchmarks_from(Catalog0, call.include_alpha).dict
      [] call.op = "get_benchmarks_by_category" ->
            get_benchmarks_by_category(Catalog0, call.arg, call.include_alpha).dict
      [] call.op = "search_benchmarks" ->
            search_benchmarks(Catalog0, call.arg, call.include_alpha).dict

\* C30 as stated: the catalog is read-only after import. Whatever the caller
\* calls and whatever entries it then adds to or removes from the mappings it
\* was given, the catalog's key set stays what it was and every query gives
\* what it gives on the catalog as imported.
C30_CatalogReadOnly ==
    /\ DOMAIN catalog_obj.items = DOMAIN BENCHMARKS
    /\ \A i \in 1..Len(held) : held[i].returned = Pristine(held[i].call)
    /\ Answered("get_benchmark_metadata") =>
          query_out.result = get_benchmark_metadata_from(Catalog0, query_in.name)
    /\ Answered("get_categories") => query_out.result = get_categories(Catalog0)

====
